---- MODULE Spec2Model ----
(***************************************************************************)
(* Model of the EPUB translation pipeline (src/translator.py) and of the   *)
(* part of the desktop front end that starts runs (src/gui.py).            *)
(*                                                                         *)
(* Text is a finite sequence of characters, each a string of length one:   *)
(* "a" is the letter a, "1" the digit 1, "." the full stop.  The only      *)
(* names are "rsquo" and "lsquo" for the curly apostrophes U+2019 and      *)
(* U+2018, "grave" for U+0060, and "U+hhhh" for the white space character  *)
(* of that code point when it has no escape: "U+000B" is the vertical tab, *)
(* "U+00A0" the no-break space.  Markup and the content written for a <p>  *)
(* are sequences of characters too.  The backend writes "b" for "a" and    *)
(* "2" for "1".                                                            *)
(***************************************************************************)
EXTENDS Integers, Sequences, FiniteSets, TLC

\* ------------------------------------------------------------------ bounds
MaxLen == 4
MaxBudget == 4

\* ------------------------------------------------------------ characters
Chars == {"a", "1", ".", " ", "\n", "rsquo"}
LowerLetters ==
  <<"a", "b", "c", "d", "e", "f", "g", "h", "i", "j", "k", "l", "m",
    "n", "o", "p", "q", "r", "s", "t", "u", "v", "w", "x", "y", "z">>
UpperLetters ==
  <<"A", "B", "C", "D", "E", "F", "G", "H", "I", "J", "K", "L", "M",
    "N", "O", "P", "Q", "R", "S", "T", "U", "V", "W", "X", "Y", "Z">>
IsLower(c) == \E k \in 1..26 : LowerLetters[k] = c
IsUpper(c) == \E k \in 1..26 : UpperLetters[k] = c
\* the characters c with c.isspace(): the class \s of re for a pattern that is a
\* str, and what str.strip() removes
whitespace ==
  {"\t", "\n", "U+000B", "\f", "\r", "U+001C", "U+001D", "U+001E", "U+001F", " ",
   "U+0085", "U+00A0", "U+1680", "U+2000", "U+2001", "U+2002", "U+2003", "U+2004",
   "U+2005", "U+2006", "U+2007", "U+2008", "U+2009", "U+200A", "U+2028", "U+2029",
   "U+202F", "U+205F", "U+3000"}
IsSpace(c) == c \in whitespace
\* the characters with the Unicode property White_Space, the class \s of the
\* encoder's split pattern: the separators U+001C to U+001F are not among them
White_Space == whitespace \ {"U+001C", "U+001D", "U+001E", "U+001F"}
IsLetter(c) == IsLower(c) \/ IsUpper(c)
IsDigit(c) == c \in {"0", "1", "2", "3", "4", "5", "6", "7", "8", "9"}
IsNewline(c) == c \in {"\n", "\r"}
\* the class [^\s\p{L}\p{N}] of the encoder's split pattern
IsPunct(c) == c \notin White_Space /\ ~IsLetter(c) /\ ~IsDigit(c)

\* str.lower() on one character and on a string
LowerChar(c) ==
  IF IsUpper(c) THEN LowerLetters[CHOOSE k \in 1..26 : UpperLetters[k] = c] ELSE c
lower(t) == [i \in 1..Len(t) |-> LowerChar(t[i])]

\* F applied to the values of its arguments: an argument is evaluated once, before
\* the call, as Python does
Bind(x, F(_)) == CHOOSE r \in {F(v) : v \in {x}} : TRUE
Bind2(x, y, F(_, _)) == CHOOSE r \in {F(v, w) : v \in {x}, w \in {y}} : TRUE
Bind4(x, y, z, a, F(_, _, _, _)) ==
  CHOOSE r \in {F(u, v, w, b) : u \in {x}, v \in {y}, w \in {z}, b \in {a}} : TRUE

RECURSIVE Join(_, _)
\* sep.join(parts)
Join(parts, sep) ==
  IF parts = <<>> THEN <<>>
  ELSE IF Len(parts) = 1 THEN parts[1]
  ELSE parts[1] \o sep \o Bind2(Tail(parts), sep, Join)

\* number of leading characters of t that satisfy the class test
RECURSIVE SpaceRun(_)
SpaceRun(t) == IF t # <<>> /\ IsSpace(Head(t)) THEN 1 + SpaceRun(Tail(t)) ELSE 0
RECURSIVE NonSpaceRun(_)
NonSpaceRun(t) == IF t # <<>> /\ ~IsSpace(Head(t)) THEN 1 + NonSpaceRun(Tail(t)) ELSE 0
RECURSIVE LetterRun(_)
LetterRun(t) == IF t # <<>> /\ IsLetter(Head(t)) THEN 1 + LetterRun(Tail(t)) ELSE 0
RECURSIVE PunctRun(_)
PunctRun(t) == IF t # <<>> /\ IsPunct(Head(t)) THEN 1 + PunctRun(Tail(t)) ELSE 0
RECURSIVE NewlineRun(_)
NewlineRun(t) == IF t # <<>> /\ IsNewline(Head(t)) THEN 1 + NewlineRun(Tail(t)) ELSE 0
RECURSIVE DigitRun(_)
DigitRun(t) == IF t # <<>> /\ IsDigit(Head(t)) THEN 1 + DigitRun(Tail(t)) ELSE 0
RECURSIVE CharRun(_, _)
CharRun(t, c) == IF t # <<>> /\ Head(t) = c THEN 1 + CharRun(Tail(t), c) ELSE 0

Drop(t, n) == SubSeq(t, n + 1, Len(t))

\* str.strip(): leading and trailing white space removed
RECURSIVE rstrip(_)
rstrip(t) ==
  IF t # <<>> /\ IsSpace(t[Len(t)]) THEN Bind(SubSeq(t, 1, Len(t) - 1), rstrip) ELSE t
strip(t) == Bind(t, LAMBDA s : Bind(Drop(s, SpaceRun(s)), rstrip))

\* re.sub(r"\s+", " ", text)
RECURSIVE CollapseSpaces(_)
CollapseSpaces(t) ==
  IF t = <<>> THEN <<>>
  ELSE IF IsSpace(Head(t)) THEN <<" ">> \o Bind(Drop(t, SpaceRun(t)), CollapseSpaces)
  ELSE <<Head(t)>> \o Bind(Tail(t), CollapseSpaces)

\* the four str.replace calls of clean_text
ReplaceChars(t) ==
  [i \in 1..Len(t) |->
     IF t[i] \in {"\n", "\r"} THEN " "
     ELSE IF t[i] \in {"rsquo", "lsquo"} THEN "'"
     ELSE t[i]]

clean_text(text) ==
  Bind(text, LAMBDA t : Bind(CollapseSpaces(ReplaceChars(t)), LAMBDA u : strip(u)))

(***************************************************************************)
(* count_tokens is len(ENCODER.encode(text)) for the cl100k_base encoding. *)
(* The encoder first cuts the text into pieces with its split pattern      *)
(*   (?i:'s|'t|'re|'ve|'m|'ll|'d) | [^\r\n\p{L}\p{N}]?\p{L}+ | \p{N}{1,3}  *)
(*   | ?[^\s\p{L}\p{N}]+[\r\n]* | \s*[\r\n]+ | \s+(?!\S) | \s+             *)
(* tried in this order at each position, and then encodes every piece on   *)
(* its own by byte-pair merges.  PieceLen is the length of the piece at    *)
(* the head of t.  A space is absorbed by a following word or punctuation  *)
(* mark but not by a following digit.                                      *)
(***************************************************************************)
LastNewlineIn(t, n) ==
  IF \E k \in 1..n : IsNewline(t[k])
  THEN CHOOSE k \in 1..n : IsNewline(t[k]) /\ \A j \in (k + 1)..n : ~IsNewline(t[j])
  ELSE 0

\* the first alternative: an apostrophe and s, t, m, d, re, ve or ll, in either case
ContractionLen(t) ==
  IF Len(t) >= 2 /\ t[1] = "'"
  THEN IF LowerChar(t[2]) \in {"s", "t", "m", "d"} THEN 2
       ELSE IF Len(t) >= 3 /\ <<LowerChar(t[2]), LowerChar(t[3])>>
                                \in {<<"r", "e">>, <<"v", "e">>, <<"l", "l">>} THEN 3
       ELSE 0
  ELSE 0

PieceLen(t) ==
  LET c == Head(t)
      rest == Tail(t)
      ws == CHOOSE n \in 0..Len(t) :
              /\ \A k \in 1..n : t[k] \in White_Space
              /\ n = Len(t) \/ t[n + 1] \notin White_Space
  IN IF ContractionLen(t) > 0 THEN ContractionLen(t)
     ELSE IF IsLetter(c) THEN LetterRun(t)
     ELSE IF ~IsNewline(c) /\ ~IsDigit(c) /\ LetterRun(rest) > 0 THEN 1 + LetterRun(rest)
     ELSE IF IsDigit(c) THEN (IF DigitRun(t) > 3 THEN 3 ELSE DigitRun(t))
     ELSE IF IsPunct(c) THEN PunctRun(t) + NewlineRun(Drop(t, PunctRun(t)))
     ELSE IF c = " " /\ PunctRun(rest) > 0
       THEN 1 + PunctRun(rest) + NewlineRun(Drop(rest, PunctRun(rest)))
     ELSE IF LastNewlineIn(t, ws) > 0 THEN LastNewlineIn(t, ws)
     ELSE IF ws = Len(t) THEN ws
     ELSE IF ws >= 2 THEN ws - 1
     ELSE 1

(***************************************************************************)
(* The vocabulary of cl100k_base is data that tiktoken fetches; it is not  *)
(* part of the source.  Every single byte is an entry of a byte-pair       *)
(* vocabulary, so a piece of one byte is one token and a piece of n bytes  *)
(* of UTF-8 is encoded to between 1 and n tokens, a number that depends on *)
(* the bytes of the piece.  KnownEncodings are the encodings that the      *)
(* documentation of tiktoken gives for cl100k_base:                        *)
(*   "tiktoken is great!"  ->  t, ik, token, " is", " great", !            *)
(*   "hello world"         ->  hello, " world"                             *)
(*   "2 + 2 = 4"           ->  2, " +", " ", 2, " =", " ", 4               *)
(*   "antidisestablishmentarianism"                                        *)
(*                         ->  ant, idis, establish, ment, arian, ism      *)
(* An encoder is the function from the pieces of more than one byte that   *)
(* it is asked about to the number of tokens it makes of each.             *)
(***************************************************************************)
KnownEncodings ==
  { <<<<"t", "i", "k", "t", "o", "k", "e", "n">>, 3>>,
    <<<<" ", "i", "s">>, 1>>, <<<<" ", "g", "r", "e", "a", "t">>, 1>>,
    <<<<"h", "e", "l", "l", "o">>, 1>>, <<<<" ", "w", "o", "r", "l", "d">>, 1>>,
    <<<<" ", "+">>, 1>>, <<<<" ", "=">>, 1>>,
    <<<<"a", "n", "t", "i", "d", "i", "s", "e", "s", "t", "a", "b", "l", "i", "s", "h", "m", "e", "n", "t", "a", "r", "i", "a", "n", "i", "s", "m">>, 6>> }

\* len(piece.encode("utf-8")): a character below U+0080 is one byte, one below
\* U+0800 two bytes, and the others of the model, U+2018 and U+2019 among them,
\* three bytes
Utf8Len(piece) ==
  LET one == {"\t", "\n", "U+000B", "\f", "\r", "U+001C", "U+001D", "U+001E", "U+001F", " "}
      two == {"U+0085", "U+00A0"}
      three == (whitespace \ (one \cup two)) \cup {"rsquo", "lsquo"}
  IN Len(piece) + Cardinality({k \in 1..Len(piece) : piece[k] \in two})
       + 2 * Cardinality({k \in 1..Len(piece) : piece[k] \in three})

RECURSIVE Pieces(_)
\* the pieces that the split pattern makes of t
Pieces(t) ==
  IF t = <<>> THEN {}
  ELSE {SubSeq(t, 1, PieceLen(t))} \cup Bind(Drop(t, PieceLen(t)), Pieces)

RECURSIVE EncodersOf(_)
\* the encoders that cl100k_base can be, as far as the pieces given show
EncodersOf(pieces) ==
  IF pieces = {} THEN { [p \in {} |-> 0] }
  ELSE LET piece == CHOOSE p \in pieces : TRUE
           known == {n \in 1..Utf8Len(piece) : <<piece, n>> \in KnownEncodings}
           lens == IF known # {} THEN known ELSE 1..Utf8Len(piece)
       IN Bind(EncodersOf(pieces \ {piece}), LAMBDA rest :
            IF Utf8Len(piece) = 1 THEN rest
            ELSE { [p \in DOMAIN f \cup {piece} |-> IF p = piece THEN n ELSE f[p]] :
                     f \in rest, n \in lens })

\* len(encoder.encode(piece)) for one piece of the split pattern
EncodedLen(encoder, piece) == IF Utf8Len(piece) = 1 THEN 1 ELSE encoder[piece]

RECURSIVE encode_ordinary(_, _)
\* len(encoder.encode_ordinary(t)): the text is cut into pieces and every piece is
\* encoded on its own
encode_ordinary(encoder, t) ==
  IF t = <<>> THEN 0
  ELSE EncodedLen(encoder, SubSeq(t, 1, PieceLen(t)))
         + Bind2(encoder, Drop(t, PieceLen(t)), encode_ordinary)

\* the special tokens of cl100k_base
special_tokens ==
  { <<"<", "|", "e", "n", "d", "o", "f", "t", "e", "x", "t", "|", ">">>,
    <<"<", "|", "f", "i", "m", "_", "p", "r", "e", "f", "i", "x", "|", ">">>,
    <<"<", "|", "f", "i", "m", "_", "m", "i", "d", "d", "l", "e", "|", ">">>,
    <<"<", "|", "f", "i", "m", "_", "s", "u", "f", "f", "i", "x", "|", ">">>,
    <<"<", "|", "e", "n", "d", "o", "f", "p", "r", "o", "m", "p", "t", "|", ">">> }

\* the search of encode for a special token in t, all of them being disallowed
\* under the defaults allowed_special = set() and disallowed_special = "all"
disallowed_special(t) ==
  \E token \in special_tokens : \E i \in 1..(Len(t) - Len(token) + 1) :
    SubSeq(t, i, i + Len(token) - 1) = token

\* what stands for the ValueError that encode raises, where a number of tokens is
\* expected
ValueError == -1

\* len(encoder.encode(t)): a text that holds a special token raises ValueError
EncodeLen(encoder, t) ==
  IF disallowed_special(t) THEN ValueError ELSE encode_ordinary(encoder, t)

(***************************************************************************)
(* nltk.sent_tokenize(text): the Punkt sentence tokenizer with the         *)
(* parameters of the "punkt" resource for English.  The trained            *)
(* parameters are data that nltk fetches; params is a record of            *)
(*   abbrev_types   the token types known as abbreviations,                *)
(*   collocations   pairs of types that are not separated,                 *)
(*   sent_starters  types that often start a sentence,                     *)
(*   ortho_context  for a type, the contexts it was seen in: a subset of   *)
(*                  BEG_UC, MID_UC, UNK_UC, BEG_LC, MID_LC, UNK_LC.        *)
(* A type is a token in lower case, or Number for a numeric token.         *)
(***************************************************************************)
IsSentEnd(c) == c \in {".", "?", "!"}
\* _re_non_word_chars
IsNonWord(c) ==
  c \in {")", "\"", ";", "}", "]", "*", ":", "@", "'", "(", "{", "[", "?", "!"}
\* _re_word_start ("grave" is the grave accent U+0060)
IsWordStart(c) ==
  c \notin {"(", "\"", "grave", "{", "[", ":", ";", "&", "#", "*", "@", ")", "}", "]", "-", ","}
\* the characters of re_boundary_realignment
IsCloser(c) == c \in {"\"", "'", ")", "]", "}"}
RECURSIVE CloserRun(_)
CloserRun(t) == IF t # <<>> /\ IsCloser(Head(t)) THEN 1 + CloserRun(Tail(t)) ELSE 0

\* the pairs ". " at the head of t, for (?:\.\s){2,}\.
RECURSIVE DotSpacePairs(_)
DotSpacePairs(t) ==
  IF Len(t) >= 2 /\ t[1] = "." /\ IsSpace(t[2]) THEN 1 + Bind(Drop(t, 2), DotSpacePairs) ELSE 0

\* _re_multi_char_punct at the head of t: the length of the match, 0 if none
MultiCharLen(t) ==
  IF CharRun(t, "-") >= 2 THEN CharRun(t, "-")
  ELSE IF CharRun(t, ".") >= 2 THEN CharRun(t, ".")
  ELSE LET k == DotSpacePairs(t) IN
       IF k >= 2 /\ Len(t) > 2 * k /\ t[2 * k + 1] = "." THEN 2 * k + 1
       ELSE IF k >= 3 THEN 2 * k - 1
       ELSE 0

\* the lookahead that ends a word of _word_tokenize_fmt, r being what follows
WordEndsBefore(r) ==
  \/ r = <<>>
  \/ IsSpace(r[1])
  \/ IsNonWord(r[1])
  \/ MultiCharLen(r) > 0
  \/ /\ r[1] = ","
     /\ \/ Len(r) = 1
        \/ IsSpace(r[2])
        \/ IsNonWord(r[2])
        \/ MultiCharLen(Tail(r)) > 0

\* the length of the token of _word_tokenize_fmt at the head of t (not white space)
WordTokenLen(t) ==
  IF MultiCharLen(t) > 0 THEN MultiCharLen(t)
  ELSE IF IsWordStart(t[1])
  THEN CHOOSE n \in 1..NonSpaceRun(t) :
         /\ WordEndsBefore(Drop(t, n))
         /\ \A j \in 1..(n - 1) : ~WordEndsBefore(Drop(t, j))
  ELSE 1

RECURSIVE word_tokenize(_)
\* self._lang_vars.word_tokenize(line): the tokens of a line
word_tokenize(line) ==
  IF line = <<>> THEN <<>>
  ELSE IF IsSpace(Head(line)) THEN Bind(Tail(line), word_tokenize)
  ELSE <<SubSeq(line, 1, WordTokenLen(line))>>
         \o Bind(Drop(line, WordTokenLen(line)), word_tokenize)

\* the number of characters of t before its first "\n"
RECURSIVE LineLen(_)
LineLen(t) == IF t # <<>> /\ Head(t) # "\n" THEN 1 + LineLen(Tail(t)) ELSE 0

RECURSIVE tokenize_words(_)
\* _tokenize_words: the text is cut at "\n" and every line is tokenized
tokenize_words(plaintext) ==
  IF plaintext = <<>> THEN <<>>
  ELSE Bind(SubSeq(plaintext, 1, LineLen(plaintext)), word_tokenize)
         \o Bind(Drop(plaintext, LineLen(plaintext) + 1), tokenize_words)

\* PunktToken: the properties of a token
Number == <<"##number##">>
\* _RE_NUMERIC: ^-?[\.,]?\d[\d,\.-]*\.?$
IsNumeric(tok) ==
  LET a == IF tok # <<>> /\ tok[1] = "-" THEN Tail(tok) ELSE tok
      b == IF a # <<>> /\ a[1] \in {".", ","} THEN Tail(a) ELSE a
  IN /\ b # <<>>
     /\ IsDigit(b[1])
     /\ \A i \in 2..Len(b) : IsDigit(b[i]) \/ b[i] \in {",", ".", "-"}
TypeOf(tok) == IF IsNumeric(lower(tok)) THEN Number ELSE lower(tok)
period_final(tok) == tok[Len(tok)] = "."
type_no_period(tok) ==
  LET type == TypeOf(tok)
  IN IF Len(type) > 1 /\ type[Len(type)] = "." THEN SubSeq(type, 1, Len(type) - 1) ELSE type
first_upper(tok) == IsUpper(tok[1])
first_lower(tok) == IsLower(tok[1])
is_ellipsis(tok) == Len(tok) >= 2 /\ \A i \in 1..Len(tok) : tok[i] = "."
is_initial(tok) == Len(tok) = 2 /\ (IsLetter(tok[1]) \/ tok[1] = "_") /\ tok[2] = "."

\* what follows the last "-" of s: s.split("-")[-1]
RECURSIVE AfterLastDash(_)
AfterLastDash(s) ==
  IF \E i \in 1..Len(s) : s[i] = "-"
  THEN Bind(Drop(s, CHOOSE i \in 1..Len(s) : s[i] = "-"), AfterLastDash)
  ELSE s

\* _first_pass_annotation: the flags sentbreak, abbr and ellipsis of a token
first_pass_annotation(params, tok) ==
  IF Len(tok) = 1 /\ IsSentEnd(tok[1])
  THEN [sentbreak |-> TRUE, abbr |-> FALSE, ellipsis |-> FALSE]
  ELSE IF is_ellipsis(tok)
  THEN [sentbreak |-> FALSE, abbr |-> FALSE, ellipsis |-> TRUE]
  ELSE IF period_final(tok) /\ ~(Len(tok) >= 2 /\ tok[Len(tok) - 1] = ".")
  THEN LET stem == lower(SubSeq(tok, 1, Len(tok) - 1))
       IN IF stem \in params.abbrev_types \/ AfterLastDash(stem) \in params.abbrev_types
          THEN [sentbreak |-> FALSE, abbr |-> TRUE, ellipsis |-> FALSE]
          ELSE [sentbreak |-> TRUE, abbr |-> FALSE, ellipsis |-> FALSE]
  ELSE [sentbreak |-> FALSE, abbr |-> FALSE, ellipsis |-> FALSE]

\* type_no_sentperiod of a token after the first pass
type_no_sentperiod(params, tok) ==
  IF first_pass_annotation(params, tok).sentbreak THEN type_no_period(tok) ELSE TypeOf(tok)

OrthoOf(params, type) ==
  IF type \in DOMAIN params.ortho_context THEN params.ortho_context[type] ELSE {}
ORTHO_UC == {"BEG_UC", "MID_UC", "UNK_UC"}
ORTHO_LC == {"BEG_LC", "MID_LC", "UNK_LC"}

\* _ortho_heuristic: can the token start a sentence ("true", "false", "unknown")
ortho_heuristic(params, tok) ==
  LET ortho_context == OrthoOf(params, type_no_sentperiod(params, tok))
  IN IF Len(tok) = 1 /\ tok[1] \in {";", ":", ",", ".", "!", "?"} THEN "false"
     ELSE IF /\ first_upper(tok)
             /\ ortho_context \cap ORTHO_LC # {}
             /\ "MID_UC" \notin ortho_context THEN "true"
     ELSE IF /\ first_lower(tok)
             /\ (ortho_context \cap ORTHO_UC # {} \/ "BEG_LC" \notin ortho_context)
       THEN "false"
     ELSE "unknown"

\* _second_pass_annotation: sentbreak of aug_tok1 when aug_tok2 follows it
second_pass_annotation(params, aug_tok1, aug_tok2) ==
  LET first == first_pass_annotation(params, aug_tok1)
      typ == type_no_period(aug_tok1)
      next_typ == type_no_sentperiod(params, aug_tok2)
      tok_is_initial == is_initial(aug_tok1)
      is_sent_starter == ortho_heuristic(params, aug_tok2)
  IN IF ~period_final(aug_tok1) THEN first.sentbreak
     ELSE IF <<typ, next_typ>> \in params.collocations THEN FALSE
     ELSE IF /\ (first.abbr \/ first.ellipsis) /\ ~tok_is_initial
             /\ \/ is_sent_starter = "true"
                \/ first_upper(aug_tok2) /\ next_typ \in params.sent_starters
       THEN TRUE
     ELSE IF /\ tok_is_initial \/ typ = Number
             /\ \/ is_sent_starter = "false"
                \/ /\ is_sent_starter = "unknown" /\ tok_is_initial /\ first_upper(aug_tok2)
                   /\ OrthoOf(params, next_typ) \cap ORTHO_LC = {}
       THEN FALSE
     ELSE first.sentbreak

\* text_contains_sentbreak: a token with a sentence break is followed by a token
text_contains_sentbreak(params, text) ==
  Bind(tokenize_words(text), LAMBDA tokens :
    \E i \in 1..(Len(tokens) - 1) :
      second_pass_annotation(params, tokens[i], tokens[i + 1]))

\* a slice(start, stop) of the text, as Python counts
Slice(t, s) == SubSeq(t, s.start + 1, s.stop)

\* period_context_re: a sentence-end character at position m (counted from 1) that
\* is followed by a non-word character, or by white space and a further token
IsCandidate(t, m) ==
  /\ IsSentEnd(t[m])
  /\ m < Len(t)
  /\ \/ IsNonWord(t[m + 1])
     \/ IsSpace(t[m + 1]) /\ m + SpaceRun(Drop(t, m)) < Len(t)
\* where next_tok starts (as a Python index) and the group after_tok
NextTokStart(t, m) == m + SpaceRun(Drop(t, m))
AfterTok(t, m) ==
  IF IsNonWord(t[m + 1]) THEN <<t[m + 1]>>
  ELSE SubSeq(t, m + 1, NextTokStart(t, m) + NonSpaceRun(Drop(t, NextTokStart(t, m))))

\* _get_last_whitespace_index: the last character of text that is in
\* string.whitespace, the white space of ASCII
last_whitespace_index(text) ==
  LET string_whitespace == {" ", "\t", "\n", "\r", "U+000B", "\f"}
  IN IF \E i \in 1..Len(text) : text[i] \in string_whitespace
     THEN (CHOOSE i \in 1..Len(text) :
             /\ text[i] \in string_whitespace
             /\ \A j \in (i + 1)..Len(text) : text[j] \notin string_whitespace) - 1
     ELSE 0

RECURSIVE match_potential_end_contexts(_, _, _, _, _)
\* _match_potential_end_contexts: the candidates with the slice of the word before
\* them; a candidate is passed over when the next one lies in the same word
match_potential_end_contexts(t, cands, k, previous_slice, previous_match) ==
  IF k > Len(cands)
  THEN IF previous_match # 0
       THEN <<[match |-> previous_match, word |-> previous_slice]>> ELSE <<>>
  ELSE LET m == cands[k]
           before_text == SubSeq(t, previous_slice.stop + 1, m - 1)
           idx == last_whitespace_index(before_text)
           prev_word_slice ==
             [start |-> IF idx # 0 THEN idx + previous_slice.stop + 1
                        ELSE previous_slice.start,
              stop |-> m - 1]
       IN (IF previous_match # 0 /\ previous_slice.stop <= prev_word_slice.start
           THEN <<[match |-> previous_match, word |-> previous_slice]>> ELSE <<>>)
          \o Bind2(prev_word_slice, m,
                   LAMBDA s, p : match_potential_end_contexts(t, cands, k + 1, s, p))

ContextOf(t, c) == Slice(t, c.word) \o <<t[c.match]>> \o AfterTok(t, c.match)

RECURSIVE slices_from_text(_, _, _, _, _)
\* _slices_from_text: a sentence ends after a candidate whose context holds a
\* sentence break; the next one starts at next_tok or right after the candidate
slices_from_text(params, t, ctxs, k, last_break) ==
  IF k > Len(ctxs) THEN <<[start |-> last_break, stop |-> Len(rstrip(t))]>>
  ELSE LET m == ctxs[k].match IN
       IF text_contains_sentbreak(params, ContextOf(t, ctxs[k]))
       THEN <<[start |-> last_break, stop |-> m]>>
            \o Bind(IF IsSpace(t[m + 1]) THEN NextTokStart(t, m) ELSE m,
                    LAMBDA b : slices_from_text(params, t, ctxs, k + 1, b))
       ELSE slices_from_text(params, t, ctxs, k + 1, last_break)

RECURSIVE realign_boundaries(_, _, _, _)
\* _realign_boundaries: closing quotes and brackets at the head of a sentence, when
\* white space, "--" or the end follows them, go to the sentence before
realign_boundaries(t, slices, k, realign) ==
  IF k > Len(slices) THEN <<>>
  ELSE LET sentence1 == [start |-> slices[k].start + realign, stop |-> slices[k].stop]
           kept == IF Slice(t, sentence1) # <<>> THEN <<sentence1>> ELSE <<>>
       IN IF k = Len(slices) THEN kept
          ELSE LET sentence2 == slices[k + 1]
                   text2 == Slice(t, sentence2)
                   n == CloserRun(text2)
                   matched ==
                     /\ n > 0
                     /\ \/ n = Len(text2)
                        \/ IsSpace(text2[n + 1])
                        \/ Len(text2) >= n + 2 /\ text2[n + 1] = "-" /\ text2[n + 2] = "-"
               IN IF matched
                  THEN <<[start |-> sentence1.start, stop |-> sentence2.start + n]>>
                       \o Bind4(t, slices, k + 1, n + SpaceRun(Drop(text2, n)),
                                realign_boundaries)
                  ELSE kept \o realign_boundaries(t, slices, k + 1, 0)

\* PunktSentenceTokenizer.tokenize(text) with the given parameters
PunktTokenize(params, t) ==
  Bind(SelectSeq([i \in 1..Len(t) |-> i], LAMBDA m : IsCandidate(t, m)), LAMBDA cands :
    Bind(match_potential_end_contexts(t, cands, 1, [start |-> 0, stop |-> 0], 0),
         LAMBDA ctxs :
      Bind(slices_from_text(params, t, ctxs, 1, 0), LAMBDA slices :
        Bind(realign_boundaries(t, slices, 1, 0), LAMBDA spans :
          [i \in 1..Len(spans) |-> Slice(t, spans[i])]))))

(***************************************************************************)
(* What the program loads when it starts: ENCODER, the module-level        *)
(* encoder of line 13, and punkt, the parameters of the resource that      *)
(* line 11 downloads and sent_tokenize reads.                              *)
(***************************************************************************)
VARIABLES ENCODER, punkt
libVars == <<ENCODER, punkt>>

\* no type of the text is known to the parameters
NoKnownTypes ==
  [found |-> TRUE,
   abbrev_types |-> {}, collocations |-> {}, sent_starters |-> {}, ortho_context |-> <<>>]
\* parameters that know "aa" and "mr" as abbreviations, "a" followed by a number as a
\* collocation, and "a" as a word that starts sentences in lower case
KnownTypes ==
  [found |-> TRUE,
   abbrev_types |-> {<<"a", "a">>, <<"m", "r">>},
   collocations |-> {<< <<"a">>, Number >>},
   sent_starters |-> {<<"a">>},
   ortho_context |-> [type \in {<<"a">>} |-> {"BEG_LC", "MID_LC"}]]
\* the download of line 11 did not bring the resource (nltk.download with
\* quiet=True returns False and raises nothing), or brought one that the installed
\* nltk does not read
ResourceNotFound == [NoKnownTypes EXCEPT !.found = FALSE]
PunktParameters == {NoKnownTypes, KnownTypes, ResourceNotFound}

\* the pieces that count_tokens is given by split_text_by_tokens(text, .) for a
\* text of texts, and those of the chunks that the call can return: the pieces of
\* the cleaned sentences and of the runs of them joined by a space
Vocabulary(params, texts) ==
  IF ~params.found THEN {}
  ELSE
  UNION { LET sentences == PunktTokenize(params, text)
              cleaned == [i \in 1..Len(sentences) |-> clean_text(sentences[i])]
              joined == { Join(SubSeq(cleaned, i, j), <<" ">>) :
                            i \in 1..Len(cleaned), j \in 1..Len(cleaned) }
          IN UNION { Pieces(u) : u \in {v \in joined : ~disallowed_special(v)} }
          : text \in texts }

\* lines 23-27
count_tokens(text) == Bind(text, LAMBDA t : EncodeLen(ENCODER, t))

\* line 43: nltk.sent_tokenize(text), for a resource that is found
sent_tokenize(text) == Bind(text, LAMBDA t : PunktTokenize(punkt, t))

\* split_text_by_tokens(text, .) raises: sent_tokenize raises LookupError at line 43
\* when the resource is not found, and count_tokens raises ValueError at line 50
\* for a sentence that holds a special token
SplitRaises(text) ==
  \/ ~punkt.found
  \/ Bind(sent_tokenize(text), LAMBDA sentences :
        \E i \in 1..Len(sentences) : count_tokens(clean_text(sentences[i])) = ValueError)

(***************************************************************************)
(* split_text_by_tokens.  ChunkLoop is the for loop over the sentences:    *)
(* st.chunks are the chunks flushed so far (each still a list of cleaned   *)
(* sentences), st.current_chunk and st.current_length the running chunk.   *)
(***************************************************************************)
\* ChunkLoop with ">=" in the test: the running chunk is closed as soon as adding
\* the sentence would reach the budget
RECURSIVE ChunkLoopFlushAtBudget(_, _, _)
ChunkLoopFlushAtBudget(sentences, max_tokens, st) ==
  IF sentences = <<>> THEN st
  ELSE
    LET sentence_cleaned == clean_text(Head(sentences))
        sentence_length == count_tokens(sentence_cleaned)
        nxt ==
          IF st.current_length + sentence_length >= max_tokens
          THEN [chunks |-> IF st.current_chunk # <<>>
                           THEN Append(st.chunks, st.current_chunk)
                           ELSE st.chunks,
                current_chunk |-> <<sentence_cleaned>>,
                current_length |-> sentence_length]
          ELSE [chunks |-> st.chunks,
                current_chunk |-> Append(st.current_chunk, sentence_cleaned),
                current_length |-> st.current_length + sentence_length]
    IN Bind(nxt, LAMBDA n : ChunkLoopFlushAtBudget(Tail(sentences), max_tokens, n))

RECURSIVE ChunkLoop(_, _, _)
ChunkLoop(sentences, max_tokens, st) ==
  IF sentences = <<>> THEN st
  ELSE
    LET sentence_cleaned == clean_text(Head(sentences))
        sentence_length == count_tokens(sentence_cleaned)
        nxt ==
          IF st.current_length + sentence_length > max_tokens
          THEN [chunks |-> IF st.current_chunk # <<>>
                           THEN Append(st.chunks, st.current_chunk)
                           ELSE st.chunks,
                current_chunk |-> <<sentence_cleaned>>,
                current_length |-> sentence_length]
          ELSE [chunks |-> st.chunks,
                current_chunk |-> Append(st.current_chunk, sentence_cleaned),
                current_length |-> st.current_length + sentence_length]
    IN Bind(nxt, LAMBDA n : ChunkLoop(Tail(sentences), max_tokens, n))

\* split_sentence_groups without the "if current_chunk" test of line 61: the running
\* chunk is appended even when it holds no sentence
split_sentence_groupsNoTest(text, max_tokens) ==
  Bind(sent_tokenize(text), LAMBDA sentences :
    Bind(ChunkLoop(sentences, max_tokens,
                   [chunks |-> <<>>, current_chunk |-> <<>>, current_length |-> 0]),
         LAMBDA st : Append(st.chunks, st.current_chunk)))

\* the chunks as lists of sentences, before " ".join
split_sentence_groups(text, max_tokens) ==
  Bind(sent_tokenize(text), LAMBDA sentences :
    Bind(ChunkLoop(sentences, max_tokens,
                   [chunks |-> <<>>, current_chunk |-> <<>>, current_length |-> 0]),
         LAMBDA st : IF st.current_chunk # <<>>
                     THEN Append(st.chunks, st.current_chunk) ELSE st.chunks))

split_text_by_tokens(text, max_tokens) ==
  Bind(split_sentence_groups(text, max_tokens), LAMBDA groups :
    [i \in 1..Len(groups) |-> Join(groups[i], <<" ">>)])


\* --------------------------------------------------------- program state
VARIABLES
  \* one direct call of split_text_by_tokens
  s_text, s_max_tokens, s_groups, s_pc,
  \* one run of translate_book per worker
  pc, req, items, soup, out_file,
  prompt_template, final_title, final_author,
  item_idx, p_idx, total_paragraphs, current_count, clean_paragraph,
  chunks, chunk_idx, prompt_content, attempt, translated_chunks, translated,
  \* what an observer of the run records
  calls, error_logs, sleeps, chunk_done, skipped, call_log, callbacks,
  cleared, visited, error,
  \* the main window
  started, crashed, signals, warnings

chunkVars == <<s_text, s_max_tokens, s_groups, s_pc>>
bookVars == <<items, soup, out_file>>
metaVars == <<prompt_template, final_title, final_author>>
walkVars == <<item_idx, p_idx, total_paragraphs, current_count, clean_paragraph>>
ttVars == <<chunks, chunk_idx, prompt_content, attempt, translated_chunks, translated>>
obsVars == <<calls, error_logs, sleeps, chunk_done, skipped, call_log, callbacks,
             cleared, visited, error>>
guiVars == <<started, crashed, signals, warnings>>
vars == <<libVars, chunkVars, pc, req, bookVars, metaVars, walkVars, ttVars, obsVars, guiVars>>

\* ------------------------------------------------- direct chunker calls
\* longer texts: three sentences; a full stop after an abbreviation, an initial
\* and a number; a full stop followed by a closing quote or bracket; a
\* contraction after a curly apostrophe; the text of the sentence "He left!
\* 5 remained."; two texts made of pieces of KnownEncodings; a sentence followed
\* by a special token of the encoder; sentences separated by a no-break space; a
\* sentence between white space that is not of ASCII
ExtraTexts ==
  { <<".", " ", ".", " ", ".">>,
    <<"a", ".", " ", "a", ".", " ", "a", ".">>,
    <<"a", "!", " ", "1", "?", " ", "a">>,
    <<"M", "r", ".", " ", "A", " ", "a", ".">>,
    <<"a", "a", ".", " ", "A", ".", " ", "a">>,
    <<"a", ".", " ", "1", ".", " ", "a">>,
    <<"a", ".", "'", " ", "a">>,
    <<"a", ".", ")", " ", "A", ".">>,
    <<"a", "?", "\"", "A">>,
    <<"rsquo", "t", "i", "s", " ", "a", ".">>,
    <<"a", "rsquo", "l", "l", " ", "a", "rsquo", "s", "o">>,
    <<"H", "e", " ", "l", "e", "f", "t", "!", " ", "5", " ",
      "r", "e", "m", "a", "i", "n", "e", "d", ".">>,
    <<"t", "i", "k", "t", "o", "k", "e", "n", " ", "i", "s", " ",
      "g", "r", "e", "a", "t", "!">>,
    <<"a", ".", " ">> \o <<"<", "|", "e", "n", "d", "o", "f", "t", "e", "x", "t", "|", ">">>,
    <<"a", ".", "U+00A0", "1", ".">>,
    <<"U+000B", "a", " ", "U+001C", "1", ".", "U+0085">>,
    <<"h", "e", "l", "l", "o", " ", "w", "o", "r", "l", "d", "!", " ", "2">> }
Texts == UNION {[1..n -> Chars] : n \in 0..MaxLen} \cup ExtraTexts
Budgets == 0..MaxBudget

\* ------------------------------------------------------ runs: the inputs
MaxParts == 2
MaxUnits == 2
MaxRuns == 2

\* translate_text's default for max_retries; translate_book never passes another
max_retries == 3

Workers == 1..MaxRuns

\* the original texts of the <p> elements: empty, spaces only, a no-break space
\* only (<p>&nbsp;</p>), and two sentences that make one chunk or two depending on
\* the token limit; every piece of the text is one byte, hence one token
UnitTexts == { <<>>, <<" ", " ">>, <<"U+00A0">>, <<"a", ".", " ", "1", ".">> }
TokenLimits == {4, 12}

\* an item of the book: a document with its <p> elements, or another kind of
\* item (an image, a style sheet), which has none
ParagraphLists == UNION {[1..n -> UnitTexts] : n \in 0..MaxUnits}
Parts == [type : {"document"}, ps : ParagraphLists] \cup {[type |-> "other", ps |-> <<>>]}
AllDocs == UNION {[1..n -> Parts] : n \in 0..MaxParts}

\* ------------------------------------------------- markup and parsing
\* lines 203-207: the markup of a bilingual paragraph, character by character
combined_html(original, translation) ==
  <<"O", "R", "I", "G", "I", "N", "A", "L", ":", " ">> \o original
    \o <<"<", "b", "r", "/", ">", "<", "b", "r", "/", ">">>
    \o <<"<", "i", ">", "T", "R", "A", "N", "S", "L", "A", "T", "I", "O", "N", ":", " ">>
    \o translation \o <<"<", "/", "i", ">">>

(***************************************************************************)
(* BeautifulSoup(markup, "html.parser") and str() of the result.  Python's *)
(* html.parser reads the markup and reports start tags, end tags, data and *)
(* comments; bs4 builds the tree from these reports; str() writes the tree *)
(* back.  The definitions are those of html/parser.py (Python 3.11) and of *)
(* bs4 for markup made of letters, digits, white space and the characters  *)
(* . : < > / , which is what the run's texts and the markup of lines       *)
(* 203-207 are made of.  Character references (&), attribute values (=,    *)
(* quotes), declarations (<!) and processing instructions (<?) need        *)
(* characters outside this alphabet.                                       *)
(***************************************************************************)
\* rawdata.find(c, i): the first position of c at or after i, 0 when there is none
Find(t, c, i) ==
  IF \E k \in i..Len(t) : t[k] = c
  THEN CHOOSE k \in i..Len(t) : t[k] = c /\ \A j \in i..(k - 1) : t[j] # c
  ELSE 0
FirstGt(t) == Find(t, ">", 1)

\* starttagopen, '<[a-zA-Z]', and the test of goahead that a whole start tag is
\* there (check_for_whole_start_tag): the tag runs to the first ">"
IsStartTagAt(t) == Len(t) >= 2 /\ t[1] = "<" /\ IsLetter(t[2]) /\ FirstGt(t) > 0

\* the name class of tagfind_tolerant, [^\t\n\r\f />\x00]
IsTagNameChar(c) == c \notin {"\t", "\n", "\r", "\f", " ", "/", ">"}
RECURSIVE TagNameRun(_)
TagNameRun(t) == IF t # <<>> /\ IsTagNameChar(Head(t)) THEN 1 + TagNameRun(Tail(t)) ELSE 0

\* the name class of endtagfind, [-.a-zA-Z0-9:_]
IsEndTagNameChar(c) == IsLetter(c) \/ IsDigit(c) \/ c \in {"-", ".", ":", "_"}

RECURSIVE AttrNames(_)
\* the loop over attrfind_tolerant in parse_starttag: the names between the white
\* space and the slashes that follow the tag name, in lower case.  The name class
\* is [^\s/>], where \s is all the white space of Python
AttrNames(t) ==
  LET sep(c) == IsSpace(c) \/ c \in {"/", ">"}
      n == CHOOSE n \in 0..Len(t) :
             /\ \A k \in 1..n : ~sep(t[k])
             /\ n = Len(t) \/ sep(t[n + 1])
  IN IF t = <<>> THEN <<>>
     ELSE IF sep(Head(t)) THEN Bind(Tail(t), AttrNames)
     ELSE <<lower(SubSeq(t, 1, n))>> \o Bind(Drop(t, n), AttrNames)

\* a report of the parser to its handler
Event(handler, tag, attrs, data) ==
  [handler |-> handler, tag |-> tag, attrs |-> attrs, data |-> data]

CDATA_CONTENT_ELEMENTS == { <<"s", "c", "r", "i", "p", "t">>, <<"s", "t", "y", "l", "e">> }

\* parse_starttag on a tag that runs from t[1] to t[g]: "/" before the ">" makes it
\* a start-end tag
parse_starttag(t, g) ==
  LET startend == t[g - 1] = "/"
  IN Bind(SubSeq(t, 2, IF startend THEN g - 2 ELSE g - 1), LAMBDA inner :
       Bind(TagNameRun(inner), LAMBDA n :
         Event(IF startend THEN "startendtag" ELSE "starttag",
               lower(SubSeq(inner, 1, n)), AttrNames(Drop(inner, n)), <<>>)))

\* parse_endtag on "</" ... ">" with the text body between them: the reports made
parse_endtag(body) ==
  Bind(rstrip(Drop(body, SpaceRun(body))), LAMBDA name :
    IF name # <<>> /\ IsLetter(name[1]) /\ \A k \in 1..Len(name) : IsEndTagNameChar(name[k])
      THEN <<Event("endtag", lower(name), <<>>, <<>>)>>
    ELSE IF body # <<>> /\ IsLetter(body[1])
      THEN <<Event("endtag", lower(SubSeq(body, 1, TagNameRun(body))), <<>>, <<>>)>>
    ELSE IF body = <<>> THEN <<>>
    ELSE <<Event("comment", <<>>, <<>>, body)>>)

\* whether t begins with the end tag of elem, '</\s*elem\s*>' without regard to case
IsCdataEndAt(t, elem) ==
  /\ Len(t) >= 2 /\ t[1] = "<" /\ t[2] = "/"
  /\ LET u == Drop(t, 2 + SpaceRun(Drop(t, 2)))
     IN /\ Len(u) >= Len(elem) /\ lower(SubSeq(u, 1, Len(elem))) = elem
        /\ LET v == Drop(u, Len(elem) + SpaceRun(Drop(u, Len(elem))))
           IN v # <<>> /\ v[1] = ">"

RECURSIVE goahead(_, _)
\* feed and close: the reports for the markup t, in order.  cdata_elem is the
\* script or style element whose content is being read, <<>> outside one
goahead(t, cdata_elem) ==
  IF t = <<>> THEN <<>>
  ELSE IF cdata_elem # <<>>
    THEN IF \E j \in 1..Len(t) : IsCdataEndAt(Drop(t, j - 1), cdata_elem)
         THEN LET j == CHOOSE j \in 1..Len(t) :
                         /\ IsCdataEndAt(Drop(t, j - 1), cdata_elem)
                         /\ \A k \in 1..(j - 1) : ~IsCdataEndAt(Drop(t, k - 1), cdata_elem)
              IN (IF j > 1 THEN <<Event("data", <<>>, <<>>, SubSeq(t, 1, j - 1))>> ELSE <<>>)
                 \o <<Event("endtag", cdata_elem, <<>>, <<>>)>>
                 \o Bind2(Drop(t, Find(t, ">", j)), <<>>, goahead)
         ELSE <<>>
  ELSE IF Head(t) # "<"
    THEN Bind(Find(t, "<", 1), LAMBDA j :
           LET n == IF j = 0 THEN Len(t) ELSE j - 1
           IN <<Event("data", <<>>, <<>>, SubSeq(t, 1, n))>>
                \o Bind2(Drop(t, n), <<>>, goahead))
  ELSE IF IsStartTagAt(t)
    THEN Bind(FirstGt(t), LAMBDA g :
           Bind(parse_starttag(t, g), LAMBDA e :
             <<e>> \o Bind2(Drop(t, g),
                            IF e.handler = "starttag" /\ e.tag \in CDATA_CONTENT_ELEMENTS
                            THEN e.tag ELSE <<>>,
                            goahead)))
  ELSE IF Len(t) >= 2 /\ t[2] = "/" /\ FirstGt(t) > 0
    THEN Bind(FirstGt(t), LAMBDA g :
           parse_endtag(SubSeq(t, 3, g - 1)) \o Bind2(Drop(t, g), <<>>, goahead))
  ELSE <<Event("data", <<>>, <<>>, <<"<">>)>> \o Bind2(Tail(t), <<>>, goahead)

\* bs4: the elements that never have content, those that keep white space, and
\* those whose text is written as it is
empty_element_tags ==
  { <<"a", "r", "e", "a">>, <<"b", "a", "s", "e">>, <<"b", "r">>, <<"c", "o", "l">>,
    <<"e", "m", "b", "e", "d">>, <<"h", "r">>, <<"i", "m", "g">>,
    <<"i", "n", "p", "u", "t">>, <<"k", "e", "y", "g", "e", "n">>, <<"l", "i", "n", "k">>,
    <<"m", "e", "n", "u", "i", "t", "e", "m">>, <<"m", "e", "t", "a">>,
    <<"p", "a", "r", "a", "m">>, <<"s", "o", "u", "r", "c", "e">>,
    <<"t", "r", "a", "c", "k">>, <<"w", "b", "r">>,
    <<"b", "a", "s", "e", "f", "o", "n", "t">>, <<"b", "g", "s", "o", "u", "n", "d">>,
    <<"c", "o", "m", "m", "a", "n", "d">>, <<"f", "r", "a", "m", "e">>,
    <<"i", "m", "a", "g", "e">>, <<"i", "s", "i", "n", "d", "e", "x">>,
    <<"n", "e", "x", "t", "i", "d">>, <<"s", "p", "a", "c", "e", "r">> }
preserve_whitespace_tags == { <<"p", "r", "e">>, <<"t", "e", "x", "t", "a", "r", "e", "a">> }
cdata_containing_tags == CDATA_CONTENT_ELEMENTS

\* EntitySubstitution.substitute_xml, the formatter of str()
RECURSIVE substitute_xml(_)
substitute_xml(s) ==
  IF s = <<>> THEN <<>>
  ELSE (IF Head(s) = "&" THEN <<"&", "a", "m", "p", ";">>
        ELSE IF Head(s) = "<" THEN <<"&", "l", "t", ";">>
        ELSE IF Head(s) = ">" THEN <<"&", "g", "t", ";">>
        ELSE <<Head(s)>>) \o Bind(Tail(s), substitute_xml)

\* endData: a string of ASCII white space only becomes one newline if it has one
\* and one space if not, unless an element that keeps white space is open
ASCII_SPACES == {" ", "\n", "\t", "\f", "\r"}
endData(current_data, preserve) ==
  IF ~preserve /\ current_data # <<>>
     /\ \A k \in 1..Len(current_data) : current_data[k] \in ASCII_SPACES
  THEN (IF \E k \in 1..Len(current_data) : current_data[k] = "\n" THEN <<"\n">> ELSE <<" ">>)
  ELSE current_data

\* an open element of tagStack: its name, and whether it is an element of
\* empty_element_tags that has no content yet, so that the end of its start tag is
\* still to be written
OpenTag(name, empty) == [name |-> name, empty |-> empty]

\* preserve_whitespace_tag_stack is not empty
Preserves(tagStack) == \E k \in 1..Len(tagStack) : tagStack[k].name \in preserve_whitespace_tags

\* the text that str() writes for the string current_data as a child of the
\* innermost open element
StringOf(tagStack, current_data) ==
  LET s == endData(current_data, Preserves(tagStack))
  IN IF tagStack # <<>> /\ tagStack[Len(tagStack)].name \in cdata_containing_tags
     THEN s ELSE substitute_xml(s)

\* a child is added to the innermost open element
GetsChild(tagStack) ==
  IF tagStack = <<>> THEN tagStack
  ELSE [tagStack EXCEPT ![Len(tagStack)].empty = FALSE]
ChildMark(tagStack) ==
  IF tagStack # <<>> /\ tagStack[Len(tagStack)].empty THEN <<">">> ELSE <<>>

\* endData followed by object_was_parsed: what is written, and the stack after it
Flush(tagStack, current_data) ==
  IF current_data = <<>> THEN [out |-> <<>>, tagStack |-> tagStack]
  ELSE [out |-> ChildMark(tagStack) \o StringOf(tagStack, current_data),
        tagStack |-> GetsChild(tagStack)]

\* ord(c): the code point of a character
ord(c) ==
  LET printable ==
        <<" ", "!", "\"", "#", "$", "%", "&", "'", "(", ")", "*", "+", ",", "-", ".", "/",
          "0", "1", "2", "3", "4", "5", "6", "7", "8", "9", ":", ";", "<", "=", ">", "?",
          "@">> \o UpperLetters \o <<"[", "\\", "]", "^", "_", "grave">> \o LowerLetters
          \o <<"{", "|", "}", "~">>
      named ==
        << <<"\t", 9>>, <<"\n", 10>>, <<"U+000B", 11>>, <<"\f", 12>>, <<"\r", 13>>,
           <<"U+001C", 28>>, <<"U+001D", 29>>, <<"U+001E", 30>>, <<"U+001F", 31>>,
           <<"U+0085", 133>>, <<"U+00A0", 160>>, <<"U+1680", 5760>>,
           <<"U+2000", 8192>>, <<"U+2001", 8193>>, <<"U+2002", 8194>>, <<"U+2003", 8195>>,
           <<"U+2004", 8196>>, <<"U+2005", 8197>>, <<"U+2006", 8198>>, <<"U+2007", 8199>>,
           <<"U+2008", 8200>>, <<"U+2009", 8201>>, <<"U+200A", 8202>>,
           <<"lsquo", 8216>>, <<"rsquo", 8217>>, <<"U+2028", 8232>>, <<"U+2029", 8233>>,
           <<"U+202F", 8239>>, <<"U+205F", 8287>>, <<"U+3000", 12288>> >>
  IN IF \E k \in 1..Len(named) : named[k][1] = c
     THEN named[CHOOSE k \in 1..Len(named) : named[k][1] = c][2]
     ELSE 31 + (CHOOSE k \in 1..Len(printable) : printable[k] = c)

RECURSIVE attributes(_)
\* Formatter.attributes, sorted(tag.attrs.items()): the names of the attributes, a
\* set because tag.attrs is a dict, in the order of str on their code points
attributes(names) ==
  LET less(a, b) ==
        \E k \in 1..Len(b) :
          /\ \A j \in 1..(k - 1) : j <= Len(a) /\ a[j] = b[j]
          /\ (k > Len(a) \/ ord(a[k]) < ord(b[k]))
  IN IF names = {} THEN <<>>
     ELSE LET first == CHOOSE m \in names : \A n \in names \ {m} : less(m, n)
          IN <<first>> \o Bind(names \ {first}, attributes)

RECURSIVE AttrsOf(_, _)
\* the attributes of the element tag as str() writes them, keys being their names
\* in the order of attributes.  html.parser gives None for a name without a value
\* and bs4 stores the empty string; set_up_substitutions makes the charset of a
\* <meta> a CharsetMetaAttributeValue, which is written as the encoding of the
\* output, "utf-8" for str()
AttrsOf(tag, keys) ==
  IF keys = <<>> THEN <<>>
  ELSE LET key == Head(keys)
           val == IF tag = <<"m", "e", "t", "a">> /\ key = <<"c", "h", "a", "r", "s", "e", "t">>
                  THEN <<"u", "t", "f", "-", "8">> ELSE <<>>
       IN <<" ">> \o key \o <<"=", "\"">> \o val \o <<"\"">> \o Bind2(tag, Tail(keys), AttrsOf)

LastOpen(tagStack, name) ==
  IF \E k \in 1..Len(tagStack) : tagStack[k].name = name
  THEN CHOOSE k \in 1..Len(tagStack) :
         tagStack[k].name = name /\ \A j \in (k + 1)..Len(tagStack) : tagStack[j].name # name
  ELSE 0

RECURSIVE Closers(_)
\* popTag for every element of the stack, innermost first: the end tags written
Closers(tagStack) ==
  IF tagStack = <<>> THEN <<>>
  ELSE LET tag == tagStack[Len(tagStack)]
       IN (IF tag.empty THEN <<"/", ">">> ELSE <<"<", "/">> \o tag.name \o <<">">>)
          \o Bind(SubSeq(tagStack, 1, Len(tagStack) - 1), Closers)

\* list.remove: the first occurrence of name leaves the list
Remove(list, name) ==
  LET k == CHOOSE k \in 1..Len(list) : list[k] = name /\ \A j \in 1..(k - 1) : list[j] # name
  IN SubSeq(list, 1, k - 1) \o SubSeq(list, k + 1, Len(list))
Contains(list, name) == \E k \in 1..Len(list) : list[k] = name

RECURSIVE TreeOf(_, _, _, _)
\* the handlers of BeautifulSoupHTMLParser and of BeautifulSoup applied to the
\* reports, and what str() writes for the tree they build.  tagStack holds the open
\* elements, current_data the text not yet made a string,
\* already_closed_empty_element the names of the elements closed by their start tag
TreeOf(events, tagStack, current_data, already_closed_empty_element) ==
  IF events = <<>>
  THEN LET f == Flush(tagStack, current_data) IN f.out \o Closers(f.tagStack)
  ELSE
  LET e == Head(events)
      f == Flush(tagStack, current_data)
      start == <<"<">> \o e.tag
                 \o AttrsOf(e.tag, attributes({e.attrs[j] : j \in 1..Len(e.attrs)}))
      k == LastOpen(f.tagStack, e.tag)
  IN
  IF e.handler = "data"
    THEN Bind4(Tail(events), tagStack, current_data \o e.data, already_closed_empty_element, TreeOf)
  ELSE IF e.handler = "comment"
    THEN f.out \o ChildMark(f.tagStack)
         \o <<"<", "!", "-", "-">> \o endData(e.data, Preserves(f.tagStack)) \o <<"-", "-", ">">>
         \o Bind4(Tail(events), GetsChild(f.tagStack), <<>>, already_closed_empty_element, TreeOf)
  ELSE IF e.handler = "starttag"
    THEN IF e.tag \in empty_element_tags
         THEN f.out \o ChildMark(f.tagStack) \o start \o <<"/", ">">>
              \o Bind4(Tail(events), GetsChild(f.tagStack), <<>>,
                        Append(already_closed_empty_element, e.tag), TreeOf)
         ELSE f.out \o ChildMark(f.tagStack) \o start \o <<">">>
              \o Bind4(Tail(events), Append(GetsChild(f.tagStack), OpenTag(e.tag, FALSE)),
                        <<>>, already_closed_empty_element, TreeOf)
  ELSE IF e.handler = "startendtag"
    THEN IF Contains(already_closed_empty_element, e.tag)
         THEN f.out \o ChildMark(f.tagStack) \o start
              \o Bind4(Tail(events), Append(GetsChild(f.tagStack), OpenTag(e.tag, TRUE)),
                        <<>>, Remove(already_closed_empty_element, e.tag), TreeOf)
         ELSE f.out \o ChildMark(f.tagStack) \o start
              \o (IF e.tag \in empty_element_tags THEN <<"/", ">">>
                  ELSE <<">", "<", "/">> \o e.tag \o <<">">>)
              \o Bind4(Tail(events), GetsChild(f.tagStack), <<>>,
                        already_closed_empty_element, TreeOf)
  ELSE \* "endtag"
    IF Contains(already_closed_empty_element, e.tag)
    THEN Bind4(Tail(events), tagStack, current_data,
                Remove(already_closed_empty_element, e.tag), TreeOf)
    ELSE IF k > 0
    THEN f.out \o Closers(SubSeq(f.tagStack, k, Len(f.tagStack)))
         \o Bind4(Tail(events), SubSeq(f.tagStack, 1, k - 1), <<>>,
                   already_closed_empty_element, TreeOf)
    ELSE f.out \o Bind4(Tail(events), f.tagStack, <<>>, already_closed_empty_element, TreeOf)

\* line 208 and the part of line 218 that writes the fragment
BeautifulSoup(markup) ==
  Bind(markup, LAMBDA t : Bind4(goahead(t, <<>>), <<>>, <<>>, <<>>, TreeOf))

\* the children of a <p>: a string, or the parsed fragment that line 209 appends,
\* which is held as the characters that str() writes for it
NavigableString(s) == [string |-> s, fragment |-> FALSE]
Fragment(s) == [string |-> s, fragment |-> TRUE]

\* line 181 for one <p> whose content in the file is the text s: the parser makes
\* the text one string, after endData
ParsedP(s) == IF s = <<>> THEN <<>> ELSE <<NavigableString(endData(s, FALSE))>>

RECURSIVE decode(_)
\* str() of the children of a <p>, the content that line 218 writes for it
decode(contents) ==
  IF contents = <<>> THEN <<>>
  ELSE (IF Head(contents).fragment THEN Head(contents).string
        ELSE substitute_xml(Head(contents).string)) \o Bind(Tail(contents), decode)

\* ----------------------------------------------------- document helpers
RECURSIVE CountIn(_)
\* the loop of count_paragraphs_in_book
CountIn(doc) ==
  IF doc = <<>> THEN 0
  ELSE (IF Head(doc).type = "document" THEN Len(Head(doc).ps) ELSE 0) + CountIn(Tail(doc))

count_paragraphs_in_book(doc) == CountIn(doc)

\* the documents of the runs: at most MaxUnits <p> elements in all
Docs == {d \in AllDocs : CountIn(d) <= MaxUnits}

(***************************************************************************)
(* A prompt template file, by what jinja2 makes of it: whether the text    *)
(* parses, and the expressions between {{ and }} that it refers to.        *)
(* translate_text passes the five names of KnownNames to render.           *)
(* "summary" stands for a name that render is not given, "book.year" for   *)
(* an attribute of such a name.                                            *)
(***************************************************************************)
KnownNames == {"language", "text", "genre", "title", "author"}
AttributeRefs == {"book.year"}
StdTemplate == [syntax_ok |-> TRUE, refs |-> KnownNames]
TemplateStrs ==
  { StdTemplate,
    [syntax_ok |-> TRUE, refs |-> KnownNames \cup {"summary"}],
    [syntax_ok |-> TRUE, refs |-> KnownNames \cup {"book.year"}],
    [syntax_ok |-> FALSE, refs |-> KnownNames] }
NoTemplate == [syntax_ok |-> TRUE, refs |-> {}]

\* title_data and author_data are what book.get_metadata("DC", ...) returns for
\* the input file, one value per metadata element
Requests == [doc : Docs, token_limit : TokenLimits,
             bilingual : BOOLEAN, has_callback : BOOLEAN,
             language : {"French"}, genre : {"General"},
             override_title : {""}, override_author : {""},
             title_data : {<<"M">>}, author_data : {<<>>},
             template : {StdTemplate}]

\* requests that vary the template, the metadata and the overrides over one
\* paragraph of two sentences, one paragraph whose text looks like a start tag,
\* an unfinished tag, an end tag or a start tag with two attributes, one
\* paragraph that is a special token of the encoder, one paragraph whose words
\* are separated by a no-break space and a vertical tab, or three paragraphs of
\* which the second is white space only
ConfigUnitTexts ==
  { <<"a", ".", " ", "1", ".">>, <<"<", "a", ">">>, <<"<", "a">>, <<"<", "/", "a", ">">>,
    <<"<", "a", " ", "2", " ", "1", ">">>,
    <<"a", "U+00A0", "U+000B", "1", ".", "U+00A0">>,
    <<"<", "|", "e", "n", "d", "o", "f", "t", "e", "x", "t", "|", ">">> }
ConfigDocs ==
  { <<[type |-> "document", ps |-> <<t>>]>> : t \in ConfigUnitTexts }
    \cup { <<[type |-> "document",
               ps |-> << <<"a", ".", " ", "1", ".">>, <<" ", "\n">>, <<"1", ".">> >>]>> }
ConfigRequests == [doc : ConfigDocs, token_limit : {4},
                   bilingual : BOOLEAN, has_callback : {TRUE},
                   language : {"French"}, genre : {"General"},
                   override_title : {"", "T"}, override_author : {"", "A"},
                   title_data : {<<>>, <<"M">>, <<"M", "M2">>},
                   author_data : {<<>>, <<"N">>},
                   template : TemplateStrs]

\* what the main window's form can hold when Translate is clicked
GuiDocs == { <<[type |-> "document", ps |-> << <<"a", ".">> >>]>> }
GuiRequests == [doc : GuiDocs, token_limit : {4},
                bilingual : {FALSE}, has_callback : {TRUE},
                language : {"French"}, genre : {"General"},
                override_title : {""}, override_author : {""},
                title_data : {<<"M">>}, author_data : {<<>>},
                template : {StdTemplate}]

NoRequest == [doc |-> <<>>, token_limit |-> 0, bilingual |-> FALSE, has_callback |-> FALSE,
              language |-> "", genre |-> "", override_title |-> "", override_author |-> "",
              title_data |-> <<>>, author_data |-> <<>>, template |-> NoTemplate]

\* the position of <p> number p of item i in the walk, counting from 1
Ordinal(doc, i, p) == CountIn(SubSeq(doc, 1, i - 1)) + p

RECURSIVE get_text(_)
\* p_tag.get_text(strip=True): the strings of the <p>, each stripped, the empty
\* ones left out
get_text(contents) ==
  IF contents = <<>> THEN <<>>
  ELSE strip(Head(contents).string) \o Bind(Tail(contents), get_text)

\* positions (item, p, chunk) in document order
LexLess(a, b) ==
  \/ a[1] < b[1]
  \/ a[1] = b[1] /\ a[2] < b[2]
  \/ a[1] = b[1] /\ a[2] = b[2] /\ a[3] < b[3]

(***************************************************************************)
(* The backend, ollama.chat.  A call returns a response that carries the   *)
(* message content, returns a response without it, or raises.  The content *)
(* of a well-formed response is the chunk of the prompt rewritten letter   *)
(* by letter, with white space around it.  A rendered prompt is recorded   *)
(* by the value that stands at each of the template's references.          *)
(***************************************************************************)
PromptText(prompt) == IF "text" \in DOMAIN prompt THEN prompt["text"] ELSE <<>>

BackendText(prompt) ==
  LET text == PromptText(prompt) IN
  <<" ">> \o [i \in 1..Len(text) |->
                IF text[i] = "a" THEN "b" ELSE IF text[i] = "1" THEN "2" ELSE text[i]]
          \o <<"\n">>

Responses(prompt) ==
  { [kind |-> "ok", content |-> BackendText(prompt)],
    [kind |-> "malformed", content |-> <<>>],
    [kind |-> "raise", content |-> <<>>] }

\* jinja2's Template(template_str) raises TemplateSyntaxError for a text that
\* does not parse
TemplateRaises(template_str) == ~template_str.syntax_ok

\* Template.render(**context) with jinja2's default Undefined: a name that is not
\* in the context renders as the empty string, an attribute of such a name raises
\* UndefinedError
RenderRaises(template) == template.refs \cap AttributeRefs # {}
render(template, context) ==
  [n \in template.refs |-> IF n \in DOMAIN context THEN context[n] ELSE <<>>]

\* lines 166-167: the first metadata value, or the fallback literal
epub_value(data, fallback) == IF data # <<>> THEN data[1] ELSE fallback

\* final_value with the document's metadata taking precedence over the override
final_valuePreferMetadata(override, data, fallback) ==
  IF data # <<>> THEN data[1] ELSE IF override # "" THEN override ELSE fallback

\* lines 170-171: "override if override else epub value"
final_value(override, data, fallback) ==
  IF override # "" THEN override ELSE epub_value(data, fallback)

\* ---------------------------------------------------------------- Init
Set(f, w, v) == [f EXCEPT ![w] = v]

ChunkIdle ==
  /\ s_text = <<>> /\ s_max_tokens = 0 /\ s_groups = <<>> /\ s_pc = "idle"

\* the runs keep the parameters that know none of the words of their paragraphs,
\* "a." followed by a number ends a sentence, or have none; docs are the documents they can be
\* given, whose paragraphs make the pieces that the encoder is asked about
LibDefault(docs) ==
  /\ punkt \in {NoKnownTypes, ResourceNotFound}
  /\ ENCODER \in EncodersOf(Vocabulary(punkt,
                   UNION { UNION { { clean_text(get_text(ParsedP(doc[i].ps[p]))) :
                                       p \in 1..Len(doc[i].ps) } : i \in 1..Len(doc) }
                           : doc \in docs }))

RunsIdle ==
  /\ items = [w \in Workers |-> <<>>]
  /\ soup = [w \in Workers |-> <<>>]
  /\ out_file = [w \in Workers |-> <<>>]
  /\ item_idx = [w \in Workers |-> 0]
  /\ p_idx = [w \in Workers |-> 0]
  /\ total_paragraphs = [w \in Workers |-> 0]
  /\ current_count = [w \in Workers |-> 0]
  /\ clean_paragraph = [w \in Workers |-> <<>>]
  /\ chunks = [w \in Workers |-> <<>>]
  /\ chunk_idx = [w \in Workers |-> 0]
  /\ prompt_content = [w \in Workers |-> <<>>]
  /\ attempt = [w \in Workers |-> 0]
  /\ translated_chunks = [w \in Workers |-> <<>>]
  /\ translated = [w \in Workers |-> <<>>]
  /\ prompt_template = [w \in Workers |-> NoTemplate]
  /\ final_title = [w \in Workers |-> ""]
  /\ final_author = [w \in Workers |-> ""]
  /\ calls = [w \in Workers |-> 0]
  /\ error_logs = [w \in Workers |-> 0]
  /\ sleeps = [w \in Workers |-> 0]
  /\ chunk_done = [w \in Workers |-> FALSE]
  /\ skipped = [w \in Workers |-> {}]
  /\ call_log = [w \in Workers |-> <<>>]
  /\ callbacks = [w \in Workers |-> <<>>]
  /\ cleared = [w \in Workers |-> {}]
  /\ visited = [w \in Workers |-> {}]
  /\ error = [w \in Workers |-> "none"]
  /\ started = 0 /\ crashed = FALSE /\ warnings = 0
  /\ signals = [w \in Workers |-> <<>>]

\* a caller has just called translate_book with some request
Init ==
  /\ ChunkIdle
  /\ RunsIdle
  /\ pc = [w \in Workers |-> IF w = 1 THEN "load_template" ELSE "idle"]
  /\ \E r \in Requests : /\ req = [w \in Workers |-> IF w = 1 THEN r ELSE NoRequest]
                          /\ LibDefault({r.doc})

\* a caller has just called translate_book with a request of ConfigRequests
ConfigInit ==
  /\ ChunkIdle
  /\ RunsIdle
  /\ pc = [w \in Workers |-> IF w = 1 THEN "load_template" ELSE "idle"]
  /\ \E r \in ConfigRequests : /\ req = [w \in Workers |-> IF w = 1 THEN r ELSE NoRequest]
                                /\ LibDefault({r.doc})

\* the main window is open and Translate has not been clicked yet
GuiInit ==
  /\ LibDefault(GuiDocs)
  /\ ChunkIdle
  /\ RunsIdle
  /\ pc = [w \in Workers |-> "idle"]
  /\ req = [w \in Workers |-> NoRequest]

\* a caller is about to call split_text_by_tokens(text, max_tokens)
ChunkInit ==
  /\ punkt \in PunktParameters
  /\ s_text \in Texts
  /\ ENCODER \in EncodersOf(Vocabulary(punkt, {s_text}))
  /\ s_max_tokens \in Budgets
  /\ s_groups = <<>>
  /\ s_pc = "call"
  /\ RunsIdle
  /\ pc = [w \in Workers |-> "idle"]
  /\ req = [w \in Workers |-> NoRequest]

\* ------------------------------------------------- split_text_by_tokens
SplitCall ==
  /\ s_pc = "call"
  /\ IF SplitRaises(s_text)
     THEN s_groups' = s_groups /\ s_pc' = "raised"
     ELSE s_groups' = split_sentence_groups(s_text, s_max_tokens) /\ s_pc' = "returned"
  /\ UNCHANGED <<libVars, s_text, s_max_tokens, pc, req, bookVars, metaVars, walkVars, ttVars,
                 obsVars, guiVars>>

\* ------------------------------------------------------- translate_book
\* an exception leaves translate_book
Fail(w, cause) ==
  /\ pc' = Set(pc, w, "failed")
  /\ error' = Set(error, w, cause)
  /\ UNCHANGED <<libVars, chunkVars, req, metaVars, bookVars, walkVars, ttVars, guiVars>>
  /\ UNCHANGED <<calls, error_logs, sleeps, chunk_done, skipped, call_log, callbacks,
                 cleared, visited>>

\* line 159: load_prompt_template opens and reads the template file, which can
\* fail, and hands the text to jinja2
LoadTemplate(w) ==
  /\ pc[w] = "load_template" /\ ~crashed
  /\ \/ /\ ~TemplateRaises(req[w].template)
        /\ prompt_template' = Set(prompt_template, w, req[w].template)
        /\ pc' = Set(pc, w, "read_epub")
        /\ UNCHANGED <<libVars, chunkVars, req, bookVars, final_title, final_author, walkVars,
                       ttVars, obsVars, guiVars>>
     \/ Fail(w, "template")

\* lines 160-171: epub.read_epub(input_path), then the title and the author
ReadEpub(w) ==
  /\ pc[w] = "read_epub" /\ ~crashed
  /\ \/ /\ items' = Set(items, w, req[w].doc)
        /\ final_title' = Set(final_title, w,
             final_value(req[w].override_title, req[w].title_data, "Unknown Title"))
        /\ final_author' = Set(final_author, w,
             final_value(req[w].override_author, req[w].author_data, "Unknown Author"))
        /\ pc' = Set(pc, w, "count")
        /\ UNCHANGED <<libVars, chunkVars, req, prompt_template, soup, out_file, walkVars, ttVars,
                       obsVars, guiVars>>
     \/ Fail(w, "read_epub")

\* lines 174-175: the pre-pass reads the input file again
CountParagraphs(w) ==
  /\ pc[w] = "count" /\ ~crashed
  /\ \/ /\ total_paragraphs' = Set(total_paragraphs, w, count_paragraphs_in_book(req[w].doc))
        /\ current_count' = Set(current_count, w, 0)
        /\ item_idx' = Set(item_idx, w, 0)
        /\ pc' = Set(pc, w, "next_item")
        /\ UNCHANGED <<libVars, chunkVars, req, metaVars, bookVars, p_idx, clean_paragraph, ttVars,
                       obsVars, guiVars>>
     \/ Fail(w, "read_epub")

\* lines 177-182: the next item of book.get_items(), parsed when it is a document
NextItem(w) ==
  /\ pc[w] = "next_item" /\ ~crashed
  /\ IF item_idx[w] < Len(items[w])
     THEN LET i == item_idx[w] + 1 IN
          /\ item_idx' = Set(item_idx, w, i)
          /\ IF items[w][i].type = "document"
             THEN /\ soup' = Set(soup, w, [p \in 1..Len(items[w][i].ps) |->
                                             ParsedP(items[w][i].ps[p])])
                  /\ p_idx' = Set(p_idx, w, 0)
                  /\ pc' = Set(pc, w, "next_p")
             ELSE /\ UNCHANGED <<soup, p_idx>>
                  /\ pc' = Set(pc, w, "next_item")
     ELSE /\ pc' = Set(pc, w, "write_epub")
          /\ UNCHANGED <<item_idx, soup, p_idx>>
  /\ UNCHANGED <<libVars, chunkVars, req, metaVars, items, out_file, total_paragraphs, current_count,
                 clean_paragraph, ttVars, obsVars, guiVars>>

\* NextP with "continue" for an empty paragraph: the progress update is passed over
NextPContinueOnEmpty(w) ==
  /\ pc[w] = "next_p" /\ ~crashed
  /\ IF p_idx[w] < Len(soup[w])
     THEN LET p == p_idx[w] + 1
              original_text == get_text(soup[w][p])
          IN /\ p_idx' = Set(p_idx, w, p)
             /\ clean_paragraph' = Set(clean_paragraph, w, clean_text(original_text))
             /\ visited' = Set(visited, w, visited[w] \cup {<<item_idx[w], p>>})
             /\ pc' = Set(pc, w, IF clean_text(original_text) # <<>>
                                 THEN "translate_text" ELSE "next_p")
     ELSE /\ pc' = Set(pc, w, "set_content")
          /\ UNCHANGED <<p_idx, clean_paragraph, visited>>
  /\ UNCHANGED <<libVars, chunkVars, req, metaVars, bookVars, item_idx, total_paragraphs, current_count,
                 ttVars, guiVars>>
  /\ UNCHANGED <<calls, error_logs, sleeps, chunk_done, skipped, call_log, callbacks,
                 cleared, error>>

\* NextP without the "if clean_paragraph" test: every paragraph is translated and
\* written back
NextPTranslateEmpty(w) ==
  /\ pc[w] = "next_p" /\ ~crashed
  /\ IF p_idx[w] < Len(soup[w])
     THEN LET p == p_idx[w] + 1
              original_text == get_text(soup[w][p])
          IN /\ p_idx' = Set(p_idx, w, p)
             /\ clean_paragraph' = Set(clean_paragraph, w, clean_text(original_text))
             /\ visited' = Set(visited, w, visited[w] \cup {<<item_idx[w], p>>})
             /\ pc' = Set(pc, w, "translate_text")
     ELSE /\ pc' = Set(pc, w, "set_content")
          /\ UNCHANGED <<p_idx, clean_paragraph, visited>>
  /\ UNCHANGED <<libVars, chunkVars, req, metaVars, bookVars, item_idx, total_paragraphs, current_count,
                 ttVars, guiVars>>
  /\ UNCHANGED <<calls, error_logs, sleeps, chunk_done, skipped, call_log, callbacks,
                 cleared, error>>

\* lines 183-187: the next <p> of the item, its text normalized
NextP(w) ==
  /\ pc[w] = "next_p" /\ ~crashed
  /\ IF p_idx[w] < Len(soup[w])
     THEN LET p == p_idx[w] + 1
              original_text == get_text(soup[w][p])
          IN /\ p_idx' = Set(p_idx, w, p)
             /\ clean_paragraph' = Set(clean_paragraph, w, clean_text(original_text))
             /\ visited' = Set(visited, w, visited[w] \cup {<<item_idx[w], p>>})
             /\ pc' = Set(pc, w, IF clean_text(original_text) # <<>>
                                 THEN "translate_text" ELSE "progress")
     ELSE /\ pc' = Set(pc, w, "set_content")
          /\ UNCHANGED <<p_idx, clean_paragraph, visited>>
  /\ UNCHANGED <<libVars, chunkVars, req, metaVars, bookVars, item_idx, total_paragraphs, current_count,
                 ttVars, guiVars>>
  /\ UNCHANGED <<calls, error_logs, sleeps, chunk_done, skipped, call_log, callbacks,
                 cleared, error>>

\* --------------------------------------------------------- translate_text
\* lines 85-91: strip the text, return "" when nothing is left, else split it; line
\* 90 is in no try statement, so what split_text_by_tokens raises leaves
\* translate_text and translate_book
EnterTranslateText(w) ==
  /\ pc[w] = "translate_text" /\ ~crashed
  /\ LET text == strip(clean_paragraph[w]) IN
     IF text = <<>>
     THEN /\ translated' = Set(translated, w, <<>>)
          /\ pc' = Set(pc, w, "write_back")
          /\ UNCHANGED <<chunks, chunk_idx, translated_chunks, error>>
     ELSE IF SplitRaises(text)
     THEN /\ pc' = Set(pc, w, "failed")
          /\ error' = Set(error, w, "tokenize")
          /\ UNCHANGED <<chunks, chunk_idx, translated_chunks, translated>>
     ELSE /\ chunks' = Set(chunks, w, split_text_by_tokens(text, req[w].token_limit \div 2))
          /\ translated_chunks' = Set(translated_chunks, w, <<>>)
          /\ chunk_idx' = Set(chunk_idx, w, 0)
          /\ pc' = Set(pc, w, "next_chunk")
          /\ UNCHANGED <<translated, error>>
  /\ UNCHANGED <<libVars, chunkVars, req, metaVars, bookVars, walkVars, prompt_content, attempt,
                 guiVars>>
  /\ UNCHANGED <<calls, error_logs, sleeps, chunk_done, skipped, call_log, callbacks,
                 cleared, visited>>

\* "for chunk in reversed(chunks)"
IterChunkNoReversed(n, k) == n + 1 - k

\* line 93, "for chunk in chunks": the number of the chunk that iteration k takes
\* from a list of n chunks
IterChunkNo(n, k) == k

\* Context with the override passed on as the title, unresolved: the prompt's
\* title is empty when the user gave none
ContextOverrideOnly(w, chunk) ==
  [language |-> req[w].language, text |-> chunk, genre |-> req[w].genre,
   title |-> req[w].override_title, author |-> final_author[w]]

\* the context that translate_text passes to render, lines 99-105
Context(w, chunk) ==
  [language |-> req[w].language, text |-> chunk, genre |-> req[w].genre,
   title |-> final_title[w], author |-> final_author[w]]

\* lines 93-105 and 125: the next chunk is stripped and rendered into a prompt; an
\* empty chunk is passed over; after the last chunk the outputs are joined
NextChunkRendered(w) ==
  /\ IF chunk_idx[w] < Len(chunks[w])
     THEN LET k == chunk_idx[w] + 1
              chunk == strip(chunks[w][IterChunkNo(Len(chunks[w]), k)])
          IN /\ chunk_idx' = Set(chunk_idx, w, k)
             /\ IF chunk = <<>>
                THEN /\ pc' = Set(pc, w, "next_chunk")
                     /\ UNCHANGED <<prompt_content, attempt, calls, error_logs, sleeps,
                                    chunk_done>>
                ELSE /\ prompt_content' = Set(prompt_content, w,
                                              render(prompt_template[w], Context(w, chunk)))
                     /\ attempt' = Set(attempt, w, 0)
                     /\ calls' = Set(calls, w, 0)
                     /\ error_logs' = Set(error_logs, w, 0)
                     /\ sleeps' = Set(sleeps, w, 0)
                     /\ chunk_done' = Set(chunk_done, w, FALSE)
                     /\ pc' = Set(pc, w, "attempt")
             /\ UNCHANGED translated
     ELSE /\ translated' = Set(translated, w, Join(translated_chunks[w], <<" ">>))
          /\ pc' = Set(pc, w, "write_back")
          /\ UNCHANGED <<chunk_idx, prompt_content, attempt, calls, error_logs, sleeps,
                         chunk_done>>
  /\ UNCHANGED <<libVars, chunkVars, req, metaVars, bookVars, walkVars, chunks, translated_chunks,
                 guiVars>>
  /\ UNCHANGED <<skipped, call_log, callbacks, cleared, visited, error>>

\* lines 93-105: render runs outside the try block, so an exception it raises
\* leaves translate_text and translate_book
NextChunk(w) ==
  /\ pc[w] = "next_chunk" /\ ~crashed
  /\ IF /\ chunk_idx[w] < Len(chunks[w])
        /\ strip(chunks[w][IterChunkNo(Len(chunks[w]), chunk_idx[w] + 1)]) # <<>>
        /\ RenderRaises(prompt_template[w])
     THEN Fail(w, "render")
     ELSE NextChunkRendered(w)

\* the chunk the retry loop is working on, as (item, p, chunk number)
CurrentChunk(w) == <<item_idx[w], p_idx[w], IterChunkNo(Len(chunks[w]), chunk_idx[w])>>

\* Attempt as a loop that starts over when the range is used up: a chunk is
\* retried until it succeeds
AttemptUntilSuccess(w) ==
  /\ pc[w] = "attempt" /\ ~crashed
  /\ IF attempt[w] < max_retries
     THEN /\ calls' = Set(calls, w, calls[w] + 1)
          /\ call_log' = Set(call_log, w,
               IF call_log[w] # <<>> /\ call_log[w][Len(call_log[w])] = CurrentChunk(w)
               THEN call_log[w] ELSE Append(call_log[w], CurrentChunk(w)))
          /\ pc' = Set(pc, w, "in_call")
          /\ UNCHANGED <<attempt, error_logs, sleeps>>
     ELSE /\ attempt' = Set(attempt, w, 0)
          /\ calls' = Set(calls, w, 0)
          /\ error_logs' = Set(error_logs, w, 0)
          /\ sleeps' = Set(sleeps, w, 0)
          /\ pc' = Set(pc, w, "attempt")
          /\ UNCHANGED call_log
  /\ UNCHANGED <<libVars, chunkVars, req, metaVars, bookVars, walkVars, guiVars>>
  /\ UNCHANGED <<chunks, chunk_idx, prompt_content, translated_chunks, translated>>
  /\ UNCHANGED <<chunk_done, skipped, callbacks, cleared, visited, error>>

\* Attempt with an exhausted chunk raising instead of being skipped
AttemptRaiseWhenExhausted(w) ==
  /\ pc[w] = "attempt" /\ ~crashed
  /\ IF attempt[w] < max_retries
     THEN /\ calls' = Set(calls, w, calls[w] + 1)
          /\ call_log' = Set(call_log, w,
               IF call_log[w] # <<>> /\ call_log[w][Len(call_log[w])] = CurrentChunk(w)
               THEN call_log[w] ELSE Append(call_log[w], CurrentChunk(w)))
          /\ pc' = Set(pc, w, "in_call")
          /\ UNCHANGED <<skipped, error>>
     ELSE /\ skipped' = Set(skipped, w, skipped[w] \cup {CurrentChunk(w)})
          /\ pc' = Set(pc, w, "failed")
          /\ error' = Set(error, w, "exhausted")
          /\ UNCHANGED <<calls, call_log>>
  /\ UNCHANGED <<libVars, chunkVars, req, metaVars, bookVars, walkVars, ttVars, guiVars>>
  /\ UNCHANGED <<error_logs, sleeps, chunk_done, callbacks, cleared, visited>>

\* lines 108-113 and 122-123: "for attempt in range(max_retries)" either sends the
\* prompt to the backend or, when the range is used up, logs that the chunk is skipped
Attempt(w) ==
  /\ pc[w] = "attempt" /\ ~crashed
  /\ IF attempt[w] < max_retries
     THEN /\ calls' = Set(calls, w, calls[w] + 1)
          /\ call_log' = Set(call_log, w,
               IF call_log[w] # <<>> /\ call_log[w][Len(call_log[w])] = CurrentChunk(w)
               THEN call_log[w] ELSE Append(call_log[w], CurrentChunk(w)))
          /\ pc' = Set(pc, w, "in_call")
          /\ UNCHANGED skipped
     ELSE /\ skipped' = Set(skipped, w, skipped[w] \cup {CurrentChunk(w)})
          /\ pc' = Set(pc, w, "next_chunk")
          /\ UNCHANGED <<calls, call_log>>
  /\ UNCHANGED <<libVars, chunkVars, req, metaVars, bookVars, walkVars, ttVars, guiVars>>
  /\ UNCHANGED <<error_logs, sleeps, chunk_done, callbacks, cleared, visited, error>>

\* BackendReturn without the "break": a success is appended and the loop goes on
BackendReturnNoBreak(w) ==
  /\ pc[w] = "in_call" /\ ~crashed
  /\ \E r \in Responses(prompt_content[w]) :
       \/ /\ r.kind = "ok"
          /\ translated_chunks' = Set(translated_chunks, w,
                                      Append(translated_chunks[w], strip(r.content)))
          /\ chunk_done' = Set(chunk_done, w, TRUE)
          /\ attempt' = Set(attempt, w, attempt[w] + 1)
          /\ pc' = Set(pc, w, "attempt")
          /\ UNCHANGED error_logs
       \/ /\ r.kind = "malformed"
          /\ attempt' = Set(attempt, w, attempt[w] + 1)
          /\ pc' = Set(pc, w, "attempt")
          /\ UNCHANGED <<translated_chunks, chunk_done, error_logs>>
       \/ /\ r.kind = "raise"
          /\ error_logs' = Set(error_logs, w, error_logs[w] + 1)
          /\ pc' = Set(pc, w, "sleep")
          /\ UNCHANGED <<translated_chunks, chunk_done, attempt>>
  /\ UNCHANGED <<libVars, chunkVars, req, metaVars, bookVars, walkVars, chunks, chunk_idx, prompt_content,
                 translated, guiVars>>
  /\ UNCHANGED <<calls, sleeps, skipped, call_log, callbacks, cleared, visited, error>>

\* lines 110-120: chat(...) returns or raises.  A response with message content is
\* trimmed, appended and ends the retry loop; a response without it falls through
\* to the next iteration; an exception is logged by the except clause
BackendReturn(w) ==
  /\ pc[w] = "in_call" /\ ~crashed
  /\ \E r \in Responses(prompt_content[w]) :
       \/ /\ r.kind = "ok"
          /\ translated_chunks' = Set(translated_chunks, w,
                                      Append(translated_chunks[w], strip(r.content)))
          /\ chunk_done' = Set(chunk_done, w, TRUE)
          /\ pc' = Set(pc, w, "next_chunk")
          /\ UNCHANGED <<attempt, error_logs>>
       \/ /\ r.kind = "malformed"
          /\ attempt' = Set(attempt, w, attempt[w] + 1)
          /\ pc' = Set(pc, w, "attempt")
          /\ UNCHANGED <<translated_chunks, chunk_done, error_logs>>
       \/ /\ r.kind = "raise"
          /\ error_logs' = Set(error_logs, w, error_logs[w] + 1)
          /\ pc' = Set(pc, w, "sleep")
          /\ UNCHANGED <<translated_chunks, chunk_done, attempt>>
  /\ UNCHANGED <<libVars, chunkVars, req, metaVars, bookVars, walkVars, chunks, chunk_idx, prompt_content,
                 translated, guiVars>>
  /\ UNCHANGED <<calls, sleeps, skipped, call_log, callbacks, cleared, visited, error>>

\* line 121: time.sleep(delay) in the except clause, then the next iteration
Sleep(w) ==
  /\ pc[w] = "sleep" /\ ~crashed
  /\ sleeps' = Set(sleeps, w, sleeps[w] + 1)
  /\ attempt' = Set(attempt, w, attempt[w] + 1)
  /\ pc' = Set(pc, w, "attempt")
  /\ UNCHANGED <<libVars, chunkVars, req, metaVars, bookVars, walkVars, chunks, chunk_idx, prompt_content,
                 translated_chunks, translated, guiVars>>
  /\ UNCHANGED <<calls, error_logs, chunk_done, skipped, call_log, callbacks, cleared,
                 visited, error>>

\* ------------------------------------------- translate_book, continued
\* WriteBack that leaves the <p> as it was when nothing was translated
WriteBackKeepUntranslated(w) ==
  /\ pc[w] = "write_back" /\ ~crashed
  /\ IF translated[w] = <<>>
     THEN UNCHANGED <<cleared, soup>>
     ELSE /\ cleared' = Set(cleared, w, cleared[w] \cup {<<item_idx[w], p_idx[w]>>})
          /\ soup' = Set(soup, w, [soup[w] EXCEPT ![p_idx[w]] =
                         IF req[w].bilingual
                         THEN <<Fragment(BeautifulSoup(combined_html(clean_paragraph[w],
                                                                      translated[w])))>>
                         ELSE <<NavigableString(translated[w])>>])
  /\ pc' = Set(pc, w, "progress")
  /\ UNCHANGED <<libVars, chunkVars, req, metaVars, items, out_file, walkVars, ttVars, guiVars>>
  /\ UNCHANGED <<calls, error_logs, sleeps, chunk_done, skipped, call_log, callbacks,
                 visited, error>>

\* lines 200-211: the <p> is cleared and given its new content
WriteBack(w) ==
  /\ pc[w] = "write_back" /\ ~crashed
  /\ cleared' = Set(cleared, w, cleared[w] \cup {<<item_idx[w], p_idx[w]>>})
  /\ soup' = Set(soup, w, [soup[w] EXCEPT ![p_idx[w]] =
                 IF req[w].bilingual
                 THEN <<Fragment(BeautifulSoup(combined_html(clean_paragraph[w],
                                                              translated[w])))>>
                 ELSE <<NavigableString(translated[w])>>])
  /\ pc' = Set(pc, w, "progress")
  /\ UNCHANGED <<libVars, chunkVars, req, metaVars, items, out_file, walkVars, ttVars, guiVars>>
  /\ UNCHANGED <<calls, error_logs, sleeps, chunk_done, skipped, call_log, callbacks,
                 visited, error>>

\* Progress with the callback told before the counter advances
ProgressCallbackFirst(w) ==
  /\ pc[w] = "progress" /\ ~crashed
  /\ current_count' = Set(current_count, w, current_count[w] + 1)
  /\ callbacks' = Set(callbacks, w,
       IF req[w].has_callback
       THEN Append(callbacks[w], <<current_count[w], total_paragraphs[w]>>)
       ELSE callbacks[w])
  /\ pc' = Set(pc, w, "next_p")
  /\ UNCHANGED <<libVars, chunkVars, req, metaVars, bookVars, item_idx, p_idx, total_paragraphs,
                 clean_paragraph, ttVars, guiVars>>
  /\ UNCHANGED <<calls, error_logs, sleeps, chunk_done, skipped, call_log, cleared,
                 visited, error>>

\* lines 213-216: the counter advances and the callback, if any, is told
Progress(w) ==
  /\ pc[w] = "progress" /\ ~crashed
  /\ current_count' = Set(current_count, w, current_count[w] + 1)
  /\ callbacks' = Set(callbacks, w,
       IF req[w].has_callback
       THEN Append(callbacks[w], <<current_count[w] + 1, total_paragraphs[w]>>)
       ELSE callbacks[w])
  /\ pc' = Set(pc, w, "next_p")
  /\ UNCHANGED <<libVars, chunkVars, req, metaVars, bookVars, item_idx, p_idx, total_paragraphs,
                 clean_paragraph, ttVars, guiVars>>
  /\ UNCHANGED <<calls, error_logs, sleeps, chunk_done, skipped, call_log, cleared,
                 visited, error>>

\* SetContent with write_epub inside the loop over the items: the output file is
\* written after every document item
SetContentAndWrite(w) ==
  /\ pc[w] = "set_content" /\ ~crashed
  /\ items' = Set(items, w, [items[w] EXCEPT ![item_idx[w]].ps =
                                [p \in 1..Len(soup[w]) |-> decode(soup[w][p])]])
  /\ out_file' = Set(out_file, w, Append(out_file[w], items'[w]))
  /\ pc' = Set(pc, w, "next_item")
  /\ UNCHANGED <<libVars, chunkVars, req, metaVars, soup, walkVars, ttVars, obsVars, guiVars>>

\* line 218: item.set_content(str(soup)...)
SetContent(w) ==
  /\ pc[w] = "set_content" /\ ~crashed
  /\ items' = Set(items, w, [items[w] EXCEPT ![item_idx[w]].ps =
                                [p \in 1..Len(soup[w]) |-> decode(soup[w][p])]])
  /\ pc' = Set(pc, w, "next_item")
  /\ UNCHANGED <<libVars, chunkVars, req, metaVars, soup, out_file, walkVars, ttVars, obsVars, guiVars>>

\* line 220: epub.write_epub(output_path, book, {})
WriteEpub(w) ==
  /\ pc[w] = "write_epub" /\ ~crashed
  /\ \/ /\ out_file' = Set(out_file, w, Append(out_file[w], items[w]))
        /\ pc' = Set(pc, w, "done")
        /\ UNCHANGED <<libVars, chunkVars, req, metaVars, items, soup, walkVars, ttVars, obsVars, guiVars>>
     \/ Fail(w, "write_epub")

RunStep(w) ==
  \/ LoadTemplate(w) \/ ReadEpub(w) \/ CountParagraphs(w)
  \/ NextItem(w) \/ NextP(w)
  \/ EnterTranslateText(w) \/ NextChunk(w) \/ Attempt(w) \/ BackendReturn(w) \/ Sleep(w)
  \/ WriteBack(w) \/ Progress(w) \/ SetContent(w) \/ WriteEpub(w)

Next == \E w \in Workers : RunStep(w)
Spec == Init /\ [][Next]_vars
SpecConfig == ConfigInit /\ [][Next]_vars

\* translate_book runs on one thread, which takes its next step whenever it has
\* one; a backend call in flight returns or raises (BackendReturn)
FairSpec == Spec /\ WF_vars(Next)

ChunkNext == SplitCall
SpecChunk == ChunkInit /\ [][ChunkNext]_vars

\* ----------------------------------------------------------- main window
\* the thread of the latest worker has been started and has not finished
LatestThreadRunning == started >= 1 /\ pc[started] # "exited"

\* StartTranslation without the "return" after the warning: a click with a required
\* field empty warns and starts a run all the same
StartTranslationNoReturn ==
  /\ ~crashed
  /\ started + warnings < MaxRuns
  /\ \E r \in GuiRequests, filled \in BOOLEAN :
       /\ warnings' = IF filled THEN warnings ELSE warnings + 1
       /\ IF LatestThreadRunning
          THEN /\ crashed' = TRUE
               /\ UNCHANGED <<pc, req, started>>
          ELSE /\ started' = started + 1
               /\ pc' = Set(pc, started + 1, "load_template")
               /\ req' = Set(req, started + 1, r)
               /\ UNCHANGED crashed
  /\ UNCHANGED <<libVars, chunkVars, bookVars, metaVars, walkVars, ttVars, obsVars, signals>>

\* StartTranslation with the threads kept in a list instead of self.thread: the
\* running thread is not destroyed and a second run starts beside it
StartTranslationKeepThreads ==
  /\ ~crashed
  /\ started + warnings < MaxRuns
  /\ \E r \in GuiRequests, filled \in BOOLEAN :
       IF ~filled
       THEN /\ warnings' = warnings + 1
            /\ UNCHANGED <<pc, req, started, crashed>>
       ELSE /\ started' = started + 1
            /\ pc' = Set(pc, started + 1, "load_template")
            /\ req' = Set(req, started + 1, r)
            /\ UNCHANGED <<warnings, crashed>>
  /\ UNCHANGED <<libVars, chunkVars, bookVars, metaVars, walkVars, ttVars, obsVars, signals>>

(***************************************************************************)
(* MainWindow.start_translation, the slot of the Translate button.  The    *)
(* button stays enabled during a run.  With a required field empty the     *)
(* slot warns and returns.  Otherwise line 400 binds self.thread to a new   *)
(* QThread.  self.thread was the only reference to the previous QThread     *)
(* (the connections of lines 421-429 hold none), so the previous one is     *)
(* destroyed there; when it is still running, Qt ends the process with      *)
(* "QThread: Destroyed while thread is still running" and no line after     *)
(* 400 is run.  When it has finished, the slot goes on, binds self.worker   *)
(* and starts the new thread, which calls Worker.run.                       *)
(***************************************************************************)
StartTranslation ==
  /\ ~crashed
  /\ started + warnings < MaxRuns
  /\ \E r \in GuiRequests, filled \in BOOLEAN :
       IF ~filled
       THEN /\ warnings' = warnings + 1
            /\ UNCHANGED <<pc, req, started, crashed>>
       ELSE IF LatestThreadRunning
       THEN /\ crashed' = TRUE
            /\ UNCHANGED <<pc, req, started, warnings>>
       ELSE /\ started' = started + 1
            /\ pc' = Set(pc, started + 1, "load_template")
            /\ req' = Set(req, started + 1, r)
            /\ UNCHANGED <<warnings, crashed>>
  /\ UNCHANGED <<libVars, chunkVars, bookVars, metaVars, walkVars, ttVars, obsVars, signals>>

\* Worker.run, line 62: translate_book returned, finished is emitted and run
\* returns to the event loop of its thread, which goes on running
EmitFinished(w) ==
  /\ pc[w] = "done" /\ ~crashed
  /\ signals' = Set(signals, w, Append(signals[w], "finished"))
  /\ pc' = Set(pc, w, "event_loop")
  /\ UNCHANGED <<libVars, chunkVars, req, metaVars, bookVars, walkVars, ttVars, obsVars, started, crashed,
                 warnings>>

\* Worker.run, lines 63-64: translate_book raised, error is emitted and run
\* returns to the event loop of its thread, which goes on running
EmitError(w) ==
  /\ pc[w] = "failed" /\ ~crashed
  /\ signals' = Set(signals, w, Append(signals[w], "error"))
  /\ pc' = Set(pc, w, "event_loop")
  /\ UNCHANGED <<libVars, chunkVars, req, metaVars, bookVars, walkVars, ttVars, obsVars, started, crashed,
                 warnings>>

\* lines 420-421: thread.quit is connected to finished and to error; the main
\* thread delivers it some time after the signal, and the thread ends
Quit(w) ==
  /\ pc[w] = "event_loop" /\ ~crashed
  /\ pc' = Set(pc, w, "exited")
  /\ UNCHANGED <<libVars, chunkVars, req, metaVars, bookVars, walkVars, ttVars, obsVars, guiVars>>

GuiNext ==
  \/ StartTranslation
  \/ \E w \in Workers : RunStep(w) \/ EmitFinished(w) \/ EmitError(w) \/ Quit(w)
SpecGui == GuiInit /\ [][GuiNext]_vars

\* =============================================================== claims
\* ------------------------------------------------- helpers of the claims
RECURSIVE Flatten(_)
Flatten(ss) == IF ss = <<>> THEN <<>> ELSE Head(ss) \o Flatten(Tail(ss))

\* the chunks of a returned split_text_by_tokens call, as texts
ReturnedChunks == [i \in 1..Len(s_groups) |-> Join(s_groups[i], <<" ">>)]

\* the original text of <p> number p of item i of worker w's document
OriginalText(w, i, p) == req[w].doc[i].ps[p]
\* clean_paragraph for that <p>, lines 181-185
ParagraphText(w, i, p) == clean_text(get_text(ParsedP(OriginalText(w, i, p))))
IsEmptyUnit(w, i, p) == ParagraphText(w, i, p) = <<>>
\* what is written for a <p> that the walk leaves as the parser made it
UntouchedContent(w, i, p) == decode(ParsedP(OriginalText(w, i, p)))

\* the <p> elements of worker w's document, as (item, p)
UnitsOf(w) ==
  {pos \in (1..Len(req[w].doc)) \X (1..MaxUnits + 1) :
     /\ req[w].doc[pos[1]].type = "document"
     /\ pos[2] <= Len(req[w].doc[pos[1]].ps)}

\* what the backend answers for a chunk, as translate_text keeps it
OutputOf(w, chunk) ==
  strip(BackendText(render(prompt_template[w], Context(w, strip(chunk)))))

\* the outputs, in chunk order, of the chunks of cs (the chunks of <p> (i, p))
\* that were not skipped
SuccessfulOutputs(w, i, p, cs) ==
  LET kept == SelectSeq([c \in 1..Len(cs) |-> c], LAMBDA c : <<i, p, c>> \notin skipped[w])
  IN [j \in 1..Len(kept) |-> OutputOf(w, cs[kept[j]])]

\* the chunks translate_text makes of <p> (i, p)
ChunksOfUnit(w, i, p) ==
  split_text_by_tokens(strip(ParagraphText(w, i, p)),
                       req[w].token_limit \div 2)

\* the content a non-empty <p> must end with, given which chunks were skipped
ExpectedContent(w, i, p) ==
  LET text == Join(SuccessfulOutputs(w, i, p, ChunksOfUnit(w, i, p)), <<" ">>)
  IN IF req[w].bilingual
     THEN combined_html(ParagraphText(w, i, p), text)
     ELSE substitute_xml(text)

\* the walk over all items is over
WalkOver(w) == pc[w] \in {"write_epub", "done"}

\* C1: for every budget B > 0 each emitted chunk has a token estimate <= B, unless
\* it is a single sentence whose own estimate exceeds B; and no sentence is dropped.
C1_ChunkWithinBudget ==
  (s_pc = "returned" /\ s_max_tokens > 0) =>
    /\ \A i \in 1..Len(s_groups) :
         \/ count_tokens(ReturnedChunks[i]) <= s_max_tokens
         \/ Len(s_groups[i]) = 1 /\ count_tokens(s_groups[i][1]) > s_max_tokens
    /\ Flatten(s_groups) =
         [j \in 1..Len(sent_tokenize(s_text)) |-> clean_text(sent_tokenize(s_text)[j])]

\* C2: a chunk whose max_retries attempts all failed contributes nothing, raises no
\* run-level error, and the run goes on: the text of a paragraph is the single-space
\* join, in chunk order, of the outputs of exactly the chunks that succeeded, and
\* that is what the finished run has written for every non-empty paragraph.  A run
\* fails only where a statement outside the retry loop raises: loading the
\* template, reading or writing the book, or splitting a paragraph that
\* split_text_by_tokens raises on.
C2_ExhaustedChunkSkipped ==
  \A w \in Workers :
    /\ pc[w] = "write_back" =>
         translated[w] = Join(SuccessfulOutputs(w, item_idx[w], p_idx[w], chunks[w]), <<" ">>)
    /\ pc[w] = "failed" =>
         /\ error[w] \in {"template", "read_epub", "tokenize", "write_epub"}
         /\ error[w] = "tokenize" => SplitRaises(strip(clean_paragraph[w]))
    /\ \A pos \in skipped[w] :
         (pc[w] = "next_chunk" /\ pos = CurrentChunk(w)) =>
           (calls[w] = max_retries /\ ~chunk_done[w])
    /\ pc[w] = "done" =>
         /\ Len(out_file[w]) = 1
         /\ \A pos \in UnitsOf(w) :
              ~IsEmptyUnit(w, pos[1], pos[2]) =>
                out_file[w][1][pos[1]].ps[pos[2]] = ExpectedContent(w, pos[1], pos[2])

\* a finished run in which the first chunk of a paragraph was skipped and the
\* second one translated
C2_Witness ==
  /\ pc[1] = "done"
  /\ <<1, 1, 1>> \in skipped[1]
  /\ <<1, 1, 2>> \notin skipped[1]
  /\ Len(call_log[1]) >= 2
  /\ ~req[1].bilingual
  /\ out_file[1][1][1].ps[1] = <<"2", ".">>

\* C3: at most max_retries backend calls per chunk, none after the first well-formed
\* response, whose trimmed text is the chunk's output.
C3_BoundedRetries ==
  \A w \in Workers :
    /\ calls[w] <= max_retries
    /\ pc[w] = "in_call" => ~chunk_done[w]
    /\ (pc[w] = "next_chunk" /\ chunk_idx[w] >= 1 /\ chunk_done[w]) =>
         /\ translated_chunks[w] # <<>>
         /\ translated_chunks[w][Len(translated_chunks[w])]
              = strip(BackendText(prompt_content[w]))

\* a chunk that succeeded on its last permitted attempt
C3_Witness ==
  pc[1] = "next_chunk" /\ chunk_idx[1] >= 1 /\ chunk_done[1] /\ calls[1] = max_retries

\* C4: current never exceeds total; it advances by one per Text Unit visited; when
\* the walk is over it equals total and the number of Text Units visited.
C4_ProgressCounter ==
  \A w \in Workers :
    /\ current_count[w] <= total_paragraphs[w]
    /\ Cardinality(visited[w]) - current_count[w] \in {0, 1}
    /\ WalkOver(w) =>
         /\ current_count[w] = total_paragraphs[w]
         /\ current_count[w] = Cardinality(visited[w])
         /\ visited[w] = UnitsOf(w)

\* a finished walk over two Text Units, one of them empty
C4_Witness ==
  /\ pc[1] = "done"
  /\ current_count[1] = 2
  /\ \E pos \in visited[1] : IsEmptyUnit(1, pos[1], pos[2])
  /\ cleared[1] # {}

\* C5: with a callback, it is called once per Text Unit visited, always with the
\* same total, and the current values are 1, 2, ..., total.
C5_CallbackSequence ==
  \A w \in Workers :
    /\ req[w].has_callback =>
         /\ \A i \in 1..Len(callbacks[w]) :
              callbacks[w][i] = <<i, count_paragraphs_in_book(req[w].doc)>>
         /\ Cardinality(visited[w]) - Len(callbacks[w]) \in {0, 1}
         /\ WalkOver(w) => Len(callbacks[w]) = count_paragraphs_in_book(req[w].doc)
    /\ ~req[w].has_callback => callbacks[w] = <<>>

\* the spec's scenario: two Text Units, the second empty, callbacks (1,2) then (2,2)
C5_Witness ==
  /\ pc[1] = "done"
  /\ req[1].has_callback
  /\ callbacks[1] = << <<1, 2>>, <<2, 2>> >>
  /\ visited[1] = {<<1, 1>>, <<1, 2>>}
  /\ ~IsEmptyUnit(1, 1, 1) /\ IsEmptyUnit(1, 1, 2)
  /\ Len(call_log[1]) = 1

\* C6: joining the chunks with single spaces and normalizing gives the normalized
\* paragraph; every sentence is in exactly one chunk, in order.  The sentences are
\* joined with a space also where the tokenizer cut the text between a question
\* mark and a quote that follows it directly.
C6_ChunksReconstructText ==
  s_pc = "returned" =>
    /\ clean_text(Join(ReturnedChunks, <<" ">>)) = clean_text(s_text)
    /\ Flatten(s_groups) =
         [j \in 1..Len(sent_tokenize(s_text)) |-> clean_text(sent_tokenize(s_text)[j])]

\* C7: an empty or white-space-only Text Unit is not cleared or replaced, causes no
\* backend call, and still advances the counter and triggers its callback.  The <p>
\* stays as the parser made it, and that is what is written for it: white space
\* of ASCII, which the parser holds as one space or one newline, and any other
\* white space, such as a no-break space, as it is.
C7_EmptyUnitUntouched ==
  \A w \in Workers : \A pos \in visited[w] :
    IsEmptyUnit(w, pos[1], pos[2]) =>
      /\ pos \notin cleared[w]
      /\ items[w][pos[1]].ps[pos[2]]
           \in {OriginalText(w, pos[1], pos[2]), UntouchedContent(w, pos[1], pos[2])}
      /\ item_idx[w] = pos[1] => soup[w][pos[2]] = ParsedP(OriginalText(w, pos[1], pos[2]))
      /\ \A j \in 1..Len(out_file[w]) :
           out_file[w][j][pos[1]].ps[pos[2]] = UntouchedContent(w, pos[1], pos[2])
      /\ \A j \in 1..Len(call_log[w]) :
           <<call_log[w][j][1], call_log[w][j][2]>> # pos
      /\ ~(item_idx[w] = pos[1] /\ p_idx[w] = pos[2] /\ pc[w] = "progress") =>
           /\ current_count[w] >= Ordinal(req[w].doc, pos[1], pos[2])
           /\ req[w].has_callback =>
                /\ Len(callbacks[w]) >= Ordinal(req[w].doc, pos[1], pos[2])
                /\ callbacks[w][Ordinal(req[w].doc, pos[1], pos[2])][1]
                     = Ordinal(req[w].doc, pos[1], pos[2])

\* a finished run over a Text Unit of two spaces followed by a translated one
C7_Witness ==
  /\ pc[1] = "done"
  /\ req[1].has_callback
  /\ <<1, 1>> \in visited[1] /\ OriginalText(1, 1, 1) = <<" ", " ">>
  /\ <<1, 2>> \in cleared[1]
  /\ out_file[1][1][1].ps[1] = <<" ">>

\* C8: backend calls are issued in document order: items in order, Text Units in
\* order within an item, chunks in order within a Text Unit.
C8_CallsInDocumentOrder ==
  \A w \in Workers : \A j, k \in 1..Len(call_log[w]) :
    j < k => LexLess(call_log[w][j], call_log[w][k])

\* calls for two chunks of a Text Unit of the first item, then for the second item
C8_Witness ==
  /\ Len(call_log[1]) = 4
  /\ call_log[1][1] = <<1, 1, 1>> /\ call_log[1][2] = <<1, 1, 2>>
  /\ call_log[1][3][1] = 2
  /\ pc[1] = "in_call" /\ calls[1] = 2

\* C9: at most one backend call is in flight at any moment, whatever the user does:
\* translate_text makes its calls one after the other, and a click during a run
\* ends the process before a second worker exists.
C9_OneCallInFlight ==
  /\ Cardinality({w \in Workers : pc[w] = "in_call"}) <= 1
  /\ Cardinality({w \in Workers : pc[w] \notin {"idle", "exited"}}) <= 1

\* a second run, started after the thread of the first had finished, has a call in
\* flight
C9_Witness ==
  /\ started = 2 /\ pc[1] = "exited" /\ pc[2] = "in_call"
  /\ call_log[1] # <<>>

\* C10: before every further attempt for a chunk, each earlier failed attempt has
\* been logged and followed by a wait of delay.
C10_LogAndWaitAfterFailure ==
  \A w \in Workers :
    pc[w] = "in_call" =>
      /\ error_logs[w] = calls[w] - 1
      /\ sleeps[w] = calls[w] - 1

\* the run has read the input file and resolved the title and the author
MetadataResolved(w) ==
  pc[w] \in {"count", "next_item", "next_p", "translate_text", "next_chunk", "attempt",
             "in_call", "sleep", "write_back", "progress", "set_content", "write_epub",
             "done"}

\* value is what the spec's rule gives for an override, the metadata values of
\* the document and a fallback literal
ResolvedAs(value, override, data, fallback) ==
  /\ override # "" => value = override
  /\ (override = "" /\ data # <<>>) => value = data[1]
  /\ (override = "" /\ data = <<>>) => value = fallback

\* C11: the title and the author are each the override when it is a non-empty
\* string, else the value of the document metadata when there is one, else the
\* literal "Unknown Title" / "Unknown Author"; that is what the prompts carry.
C11_TitleAuthorResolution ==
  \A w \in Workers :
    /\ MetadataResolved(w) =>
         /\ ResolvedAs(final_title[w], req[w].override_title, req[w].title_data,
                       "Unknown Title")
         /\ ResolvedAs(final_author[w], req[w].override_author, req[w].author_data,
                       "Unknown Author")
    /\ pc[w] = "in_call" =>
         /\ ResolvedAs(prompt_content[w]["title"], req[w].override_title,
                       req[w].title_data, "Unknown Title")
         /\ ResolvedAs(prompt_content[w]["author"], req[w].override_author,
                       req[w].author_data, "Unknown Author")

\* a backend call of a run whose title override wins over the document's title and
\* whose author, with no override and no metadata, is the fallback
C11_Witness ==
  /\ pc[1] = "in_call"
  /\ req[1].override_title = "T" /\ req[1].title_data = <<"M">>
  /\ req[1].override_author = "" /\ req[1].author_data = <<>>
  /\ prompt_content[1]["title"] = "T"
  /\ prompt_content[1]["author"] = "Unknown Author"

\* C12: the content written back for a non-empty Text Unit is the translated text
\* alone when bilingual is false, and exactly "ORIGINAL: " + normalized original +
\* "<br/><br/><i>TRANSLATION: " + translated text + "</i>" when bilingual is true.
C12_WrittenContent ==
  \A w \in Workers :
    (pc[w] = "progress" /\ <<item_idx[w], p_idx[w]>> \in cleared[w]) =>
      soup[w][p_idx[w]] =
        IF req[w].bilingual
        THEN <<Fragment(combined_html(ParagraphText(w, item_idx[w], p_idx[w]),
                                      translated[w]))>>
        ELSE <<NavigableString(translated[w])>>

\* the references of a template file that are none of the five names render is given
UndefinedRefs(template_str) == template_str.refs \ KnownNames

\* C13: a run whose template refers to a substitution point other than language,
\* text, genre, title and author ends in a fatal error and makes no backend call
\* before it: such a run never calls the backend and never ends as Done.
C13_UndefinedReferenceIsFatal ==
  \A w \in Workers :
    (pc[w] # "idle" /\ UndefinedRefs(req[w].template) # {}) =>
      /\ call_log[w] = <<>>
      /\ pc[w] \notin {"in_call", "done"}

\* C14: a configuration error is fatal and reported before any backend work.  A run
\* whose template file cannot be loaded makes no backend call, no progress callback
\* and no write of the output, and its worker reports an error; a click with a
\* required field missing is answered with a warning and starts no run.
C14_ConfigurationErrorBeforeWork ==
  /\ [](\A w \in Workers :
          error[w] = "template" =>
            /\ call_log[w] = <<>> /\ callbacks[w] = <<>> /\ out_file[w] = <<>>
            /\ pc[w] \in {"failed", "event_loop", "exited"}
            /\ pc[w] \in {"event_loop", "exited"} => signals[w] = <<"error">>)
  /\ [][warnings' # warnings =>
          /\ warnings' = warnings + 1
          /\ UNCHANGED <<pc, req, started, call_log, callbacks, out_file, signals>>]_vars

\* one click was refused with a warning, and a run that could not load its template
\* has reported the error
C14_Witness ==
  /\ warnings = 1
  /\ started = 1 /\ error[1] = "template" /\ signals[1] = <<"error">>
  /\ call_log[1] = <<>> /\ callbacks[1] = <<>> /\ out_file[1] = <<>>

\* C15: every started run gets exactly one terminal notification, when its worker
\* ends and none before: finished or error, never both, never more than one, also
\* when the process ends; no progress notification follows it; and a run in which
\* chunks were dropped after exhausted retries reports an error only if
\* translate_book itself raised.
C15_OneTerminalNotification ==
  /\ [](\A w \in Workers :
          /\ Len(signals[w]) <= 1
          /\ signals[w] # <<>> <=> pc[w] \in {"event_loop", "exited"}
          /\ (crashed /\ w <= started) => Len(signals[w]) = 1
          /\ signals[w] = <<"finished">> =>
               /\ error[w] = "none" /\ Len(out_file[w]) = 1
               /\ Len(callbacks[w]) = total_paragraphs[w]
          /\ signals[w] = <<"error">> =>
               /\ error[w] \in {"template", "read_epub", "write_epub", "render", "tokenize"}
               /\ error[w] = "tokenize" => SplitRaises(strip(clean_paragraph[w])))
  /\ [][\A w \in Workers :
          signals[w] # <<>> => (callbacks'[w] = callbacks[w] /\ signals'[w] = signals[w])]_vars

\* C16: the output document is written exactly once per successful run, and only
\* after every item has been walked and the last callback (total, total) made; a
\* run that fails, while loading, reading or walking, writes nothing.
C16_PersistOnceAfterWalk ==
  \A w \in Workers :
    /\ Len(out_file[w]) <= 1
    /\ pc[w] = "done" => Len(out_file[w]) = 1
    /\ out_file[w] # <<>> =>
         /\ pc[w] \in {"done", "event_loop", "exited"}
         /\ item_idx[w] = Len(req[w].doc)
         /\ visited[w] = UnitsOf(w)
         /\ current_count[w] = total_paragraphs[w]
         /\ (req[w].has_callback /\ total_paragraphs[w] > 0) =>
              callbacks[w][Len(callbacks[w])] = <<total_paragraphs[w], total_paragraphs[w]>>
         /\ out_file[w][1] = items[w]
    /\ error[w] # "none" => out_file[w] = <<>>

\* a successful run over two document items, written once after the callback (2, 2)
C16_Witness ==
  /\ pc[1] = "done"
  /\ Len(out_file[1]) = 1
  /\ Len(req[1].doc) = 2 /\ visited[1] = {<<1, 1>>, <<2, 1>>}
  /\ callbacks[1] = << <<1, 2>>, <<2, 2>> >>
  /\ cleared[1] = visited[1]

\* C17: with every backend call returning or raising, every started run reaches a
\* terminal state, Done or Failed, whatever the document and whichever calls fail.
C17_RunTerminates ==
  \A w \in Workers : (pc[w] # "idle") ~> (pc[w] \in {"done", "failed"})

\* a run that ended as Done although every backend call for both of its chunks
\* failed
C17_Witness ==
  /\ pc[1] = "done"
  /\ call_log[1] = << <<1, 1, 1>>, <<1, 1, 2>> >>
  /\ skipped[1] = {<<1, 1, 1>>, <<1, 1, 2>>}

\* the sum of the token estimates of the sentences of a chunk
RECURSIVE SumEstimates(_)
SumEstimates(group) ==
  IF group = <<>> THEN 0 ELSE count_tokens(Head(group)) + SumEstimates(Tail(group))

\* C18: the chunker is greedy: for any two consecutive chunks, the summed sentence
\* estimates of the earlier chunk plus the estimate of the first sentence of the
\* later chunk is strictly greater than max_tokens.
C18_GreedyChunks ==
  s_pc = "returned" =>
    \A i \in 1..(Len(s_groups) - 1) :
      SumEstimates(s_groups[i]) + count_tokens(s_groups[i + 1][1]) > s_max_tokens

\* a chunk of two sentences that exactly fills the budget, followed by a chunk
\* that the third sentence opened
C18_Witness ==
  /\ s_pc = "returned"
  /\ Len(s_groups) = 2
  /\ Len(s_groups[1]) = 2
  /\ SumEstimates(s_groups[1]) = s_max_tokens

\* C19: split_text_by_tokens emits no empty chunk, for any text and any budget,
\* budget 0 included, and returns the empty sequence for the empty text.
C19_NoEmptyChunk ==
  s_pc = "returned" =>
    /\ \A i \in 1..Len(s_groups) :
         /\ s_groups[i] # <<>>
         /\ ReturnedChunks[i] # <<>>
         /\ strip(ReturnedChunks[i]) # <<>>
    /\ s_text = <<>> => ReturnedChunks = <<>>

\* budget 0: each of three sentences is a chunk of its own
C19_Witness ==
  /\ s_pc = "returned"
  /\ s_max_tokens = 0
  /\ Len(ReturnedChunks) = 3
  /\ \A i \in 1..3 : Len(s_groups[i]) = 1

\* C20: the wait of delay happens only between attempts of the same chunk: a wait
\* is entered only when a further attempt will follow, so a chunk that is through
\* its retry loop after k attempts has waited at most k - 1 times.
C20_WaitsOnlyBetweenAttempts ==
  \A w \in Workers :
    /\ pc[w] = "sleep" => calls[w] < max_retries
    /\ (pc[w] = "next_chunk" /\ chunk_idx[w] >= 1 /\ calls[w] >= 1) =>
         sleeps[w] <= calls[w] - 1

\* C21: the book metadata is resolved once, before the walk, and never changes
\* afterwards.  From the moment a run has resolved them, no step changes its title,
\* author, target language or genre, and every prompt rendered during the run, for
\* every chunk of every paragraph, carries exactly these four values.
C21_MetadataImmutable ==
  /\ [](\A w \in Workers :
          pc[w] \in {"attempt", "in_call", "sleep"} =>
            /\ prompt_content[w]["title"] = final_title[w]
            /\ prompt_content[w]["author"] = final_author[w]
            /\ prompt_content[w]["language"] = req[w].language
            /\ prompt_content[w]["genre"] = req[w].genre)
  /\ [][\A w \in Workers :
          MetadataResolved(w) =>
            /\ final_title'[w] = final_title[w]
            /\ final_author'[w] = final_author[w]
            /\ req'[w].language = req[w].language
            /\ req'[w].genre = req[w].genre]_vars

\* the prompt of the third paragraph's chunk is at the backend after the two
\* prompts of the first paragraph were sent, in a run whose title is the document's
\* and whose author is the override
C21_Witness ==
  /\ pc[1] = "in_call" /\ p_idx[1] = 3 /\ Len(call_log[1]) = 3
  /\ req[1].override_title = "" /\ req[1].title_data = <<"M">>
  /\ req[1].override_author = "A"
  /\ prompt_content[1]["title"] = "M" /\ prompt_content[1]["author"] = "A"
  /\ prompt_content[1]["language"] = "French" /\ prompt_content[1]["genre"] = "General"

\* every chunk of <p> (i, p) that was sent to the backend was dropped after
\* max_retries failed attempts; once the walk has passed a <p>, all its chunks
\* have been sent
AllChunksExhausted(w, i, p) ==
  \A j \in 1..Len(call_log[w]) :
    (call_log[w][j][1] = i /\ call_log[w][j][2] = p) => call_log[w][j] \in skipped[w]

\* C22: the walk overwrites every Text Unit whose normalized text is non-empty,
\* whatever the backend did, and no other.  After the walk a unit has been cleared
\* exactly if its normalized text is non-empty; a unit that was not cleared is
\* written as the parser made it, white space of ASCII held as one space or
\* newline and other white space as it is;
\* and a non-empty unit all of whose chunks were exhausted is written, in
\* non-bilingual mode, with empty content, which is not its original text.
C22_NonEmptyUnitOverwritten ==
  \A w \in Workers :
    /\ WalkOver(w) =>
         \A pos \in UnitsOf(w) :
           /\ pos \in cleared[w] <=> ~IsEmptyUnit(w, pos[1], pos[2])
           /\ pos \notin cleared[w] =>
                items[w][pos[1]].ps[pos[2]] = UntouchedContent(w, pos[1], pos[2])
           /\ (/\ ~req[w].bilingual
               /\ pos \in cleared[w]
               /\ AllChunksExhausted(w, pos[1], pos[2])) =>
                /\ items[w][pos[1]].ps[pos[2]] = <<>>
                /\ items[w][pos[1]].ps[pos[2]] # OriginalText(w, pos[1], pos[2])
    /\ pc[w] = "done" => out_file[w] = <<items[w]>>

\* a finished non-bilingual run over a paragraph of two chunks, both exhausted, a
\* white-space-only paragraph and a translated one: the first is written empty, the
\* second as it was
C22_Witness ==
  /\ pc[1] = "done" /\ ~req[1].bilingual
  /\ skipped[1] = {<<1, 1, 1>>, <<1, 1, 2>>}
  /\ Len(ChunksOfUnit(1, 1, 1)) = 2
  /\ cleared[1] = {<<1, 1>>, <<1, 3>>}
  /\ out_file[1][1][1].ps = << <<>>, <<"\n">>, <<"2", ".">> >>

====
